---- MODULE Spec2Model ----
(***************************************************************************)
(* Model of the token-resolution and rate-governed caching pipeline of the *)
(* crypto Telegram bot: per-chat token-bucket limiter, TTL cache,          *)
(* one-shot callback store, CoinGecko symbol client and contract resolver. *)
(* Times are milliseconds, as returned by Date.now().                      *)
(***************************************************************************)
EXTENDS Integers, Sequences, FiniteSets, TLC

VARIABLES
    now,        \* the wall clock, Date.now()
    buckets,    \* rateLimiter.ts: Map<number, Bucket>
    rl,         \* outcome of the latest rateLimiter call
    scen,       \* per chat: how far its requests follow the capacity scenario
    admits,     \* per chat: time of its latest admitted request and the
                \* smallest separation seen between two consecutive admitted requests
    cache,      \* utils/cache.ts: sharedCache.store, key -> CacheEntry
    written,    \* per key: value, time and ttl of the latest set (none after clear)
    lastGet,    \* outcome of the latest TTLCache.get
    calls,      \* TTLCache.with calls in flight or finished, per caller
    store,      \* utils/cbStore.ts: store, id -> {v, exp}
    nput,       \* payloads stored so far; the n-th payload is the number n
    pend,       \* per payload: the id put returned, its deadline, whether a take asked for it
    lastTake,   \* outcome of the latest takePayload
    returned,   \* per payload: how many takes returned it
    rs,         \* the resolveContractFromQuery call: position, data, requests issued
    nres,       \* resolver calls made so far
    mk,         \* getCoinGeckoBySymbol calls in flight or finished, per caller
    db,         \* prisma priceCache: key -> row {payload, ttlAt}
    ft,         \* the doFetch of each caller: its request in flight and what it saw
    born,       \* per key: when the live fetch behind the in-process entry completed
    dx,         \* the DEX data client: the call in flight or finished
    sv,         \* the inbound user action in hand: its admission and its client calls
    ai,         \* aiSafetyInsight: the call in flight or finished
    pv,         \* process.env.AI_PROVIDER and the requests that read or write it
    audit       \* the tokens the refill has added to a bucket since it was created

limiterVars == <<buckets, rl, scen, admits, audit>>
cacheVars == <<cache, written, lastGet, calls>>
storeVars == <<store, nput, pend, lastTake, returned>>
resolverVars == <<rs, nres>>
marketVars == <<mk, db, ft, born>>
surfaceVars == <<dx, sv, ai, pv>>
vars == <<now, buckets, rl, scen, admits, cache, written, lastGet, calls,
          store, nput, pend, lastTake, returned, rs, nres, mk, db, ft, born, dx, sv, ai, pv, audit>>

Min(a, b) == IF a < b THEN a ELSE b

(***************************************************************************)
(* Bounds of the model.                                                    *)
(***************************************************************************)
StartTime == 1000       \* clock reading at process start (Date.now() is far above MIN_GAP_MS)
MaxTime == 19000        \* the clock stops advancing here

Chats == {1}            \* conversations with a chat id

Gaps == {0, 450, 900, 1800, 6000, 12000}   \* time between one event and the next

MaxClock == 61001       \* the clock of the cache models stops here
TickSteps == {1, 15000}
Procs == {1, 2}         \* concurrent callers

MaxStoreClock == 451001 \* the clock of the callback-store model stops here
MaxPuts == 3            \* payloads stored in one run
MaxResolves == 1        \* resolver calls in one run
MaxMarketClock == 46001 \* the clock of the market-data model stops here
MarketSteps == {1, 45000}
Ids == {"idA", "idB"}   \* identifiers randomId can return

(***************************************************************************)
(* The clock.                                                              *)
(***************************************************************************)
ClockAdvance(d) == now + d

(***************************************************************************)
(* middleware/rateLimiter.ts                                               *)
(***************************************************************************)
CAPACITY == 5
REFILL_MS == 6000
MIN_GAP_MS == 900

ChatIds == {0} \cup Chats       \* 0 stands for a context without chat id

NewBucket(t) == [tokens |-> CAPACITY, last |-> t, lastHit |-> 0]

BucketOf(c, t) == IF c \in DOMAIN buckets THEN buckets[c] ELSE NewBucket(t)

\* mutant: a refill fills the bucket up instead of adding the elapsed tokens
RefillToFull(b, t) ==
    LET elapsed == t - b.last
        add == elapsed \div REFILL_MS
    IN  IF elapsed > 0 /\ add > 0
        THEN [b EXCEPT !.tokens = CAPACITY, !.last = t]
        ELSE b

\* mutant: the refill forgets the cap
RefillNoCap(b, t) ==
    LET elapsed == t - b.last
        add == elapsed \div REFILL_MS
    IN  IF elapsed > 0 /\ add > 0
        THEN [b EXCEPT !.tokens = b.tokens + add, !.last = t]
        ELSE b

\* mutant: every request moves the refill timestamp
RefillStampsAlways(b, t) ==
    LET elapsed == t - b.last
        add == elapsed \div REFILL_MS
    IN  IF elapsed > 0 /\ add > 0
        THEN [b EXCEPT !.tokens = Min(CAPACITY, b.tokens + add), !.last = t]
        ELSE [b EXCEPT !.last = t]

\* mutant: a refill adds its tokens and leaves the refill timestamp behind
RefillKeepsStamp(b, t) ==
    LET elapsed == t - b.last
        add == elapsed \div REFILL_MS
    IN  IF elapsed > 0 /\ add > 0
        THEN [b EXCEPT !.tokens = Min(CAPACITY, b.tokens + add)]
        ELSE b

Refill(b, t) ==
    LET elapsed == t - b.last
        add == elapsed \div REFILL_MS
    IN  IF elapsed > 0 /\ add > 0
        THEN [b EXCEPT !.tokens = Min(CAPACITY, b.tokens + add), !.last = t]
        ELSE b

\* mutant: the gap is measured from the refill timestamp
GapFromRefill(b, t) == t - b.last < MIN_GAP_MS

GapViolated(b, t) == t - b.lastHit < MIN_GAP_MS

\* mutant: the estimate is rounded down
RetrySecsFloor(b, t) ==
    LET rem == REFILL_MS - ((t - b.last) % REFILL_MS)
    IN  rem \div 1000

RetrySecs(b, t) ==
    LET rem == REFILL_MS - ((t - b.last) % REFILL_MS)
    IN  (rem + 999) \div 1000

Consume(b, t) == [b EXCEPT !.tokens = b.tokens - 1, !.lastHit = t]

\* mutant: the token check runs before the gap check
LimiterTokensFirst(c, t) ==
    LET b == Refill(BucketOf(c, t), t)
    IN  IF b.tokens <= 0 THEN [res |-> "exhausted", secs |-> RetrySecs(b, t), b |-> b]
        ELSE IF GapViolated(b, t) THEN [res |-> "slow", secs |-> 0, b |-> b]
        ELSE [res |-> "next", secs |-> 0, b |-> Consume(b, t)]

\* mutant: a request denied by the gap rule is stamped like an admitted one
LimiterStampsDenied(c, t) ==
    LET b == Refill(BucketOf(c, t), t)
    IN  IF GapViolated(b, t) THEN [res |-> "slow", secs |-> 0, b |-> [b EXCEPT !.lastHit = t]]
        ELSE IF b.tokens <= 0 THEN [res |-> "exhausted", secs |-> RetrySecs(b, t), b |-> b]
        ELSE [res |-> "next", secs |-> 0, b |-> Consume(b, t)]

\* mutant: a request denied as exhausted restarts the refill interval
LimiterRestartsInterval(c, t) ==
    LET b == Refill(BucketOf(c, t), t)
    IN  IF GapViolated(b, t) THEN [res |-> "slow", secs |-> 0, b |-> b]
        ELSE IF b.tokens <= 0
            THEN [res |-> "exhausted", secs |-> RetrySecs(b, t), b |-> [b EXCEPT !.last = t]]
        ELSE [res |-> "next", secs |-> 0, b |-> Consume(b, t)]

\* result of one rateLimiter call: the reply and the bucket it leaves
Limiter(c, t) ==
    LET b == Refill(BucketOf(c, t), t)
    IN  IF GapViolated(b, t) THEN [res |-> "slow", secs |-> 0, b |-> b]
        ELSE IF b.tokens <= 0 THEN [res |-> "exhausted", secs |-> RetrySecs(b, t), b |-> b]
        ELSE [res |-> "next", secs |-> 0, b |-> Consume(b, t)]

PutBucket(c, b) == [k \in DOMAIN buckets \cup {c} |-> IF k = c THEN b ELSE buckets[k]]

\* the scenario of the capacity test: requests 1..5 spaced >= MIN_GAP_MS inside
\* the first refill window, a 6th in that window, a 7th in the second window,
\* an 8th at least MIN_GAP_MS and less than one interval after the 7th
ScenNext(s, t) ==
    IF s.n = 0 THEN [n |-> 1, first |-> t, prev |-> t]
    ELSE IF s.n \in 1..5 /\ t - s.prev >= 900 /\ t < s.first + 6000
        THEN [s EXCEPT !.n = s.n + 1, !.prev = t]
    ELSE IF s.n = 6 /\ t >= s.first + 6000 /\ t < s.first + 12000
        THEN [s EXCEPT !.n = 7, !.prev = t]
    ELSE IF s.n = 7 /\ t - s.prev >= 900 /\ t < s.prev + 6000
        THEN [s EXCEPT !.n = 8, !.prev = t]
    ELSE [n |-> -1, first |-> 0, prev |-> 0]     \* off the scenario

\* separations are recorded up to FarApart; anything larger counts as FarApart
FarApart == 2 * MIN_GAP_MS
AdmitNext(a, t) ==
    [lastAt |-> t,
     closest |-> IF a.lastAt < 0 THEN a.closest ELSE Min(a.closest, t - a.lastAt)]

\* a request of chat c arrives d ms after the previous event
Admit(c, d) ==
    /\ c \in ChatIds
    /\ d \in Gaps
    /\ ClockAdvance(d) <= MaxTime
    /\ now' = ClockAdvance(d)
    /\ IF c = 0
       THEN /\ rl' = [chat |-> 0, at |-> 0, res |-> "next", secs |-> 0,    \* returns before reading the clock
                      fresh |-> FALSE, pre |-> NewBucket(0)]
            /\ UNCHANGED <<buckets, scen, admits>>
       ELSE LET r == Limiter(c, now')
            IN  /\ buckets' = PutBucket(c, r.b)
                /\ rl' = [chat |-> c, at |-> now', res |-> r.res, secs |-> r.secs,
                          fresh |-> c \notin DOMAIN buckets, pre |-> BucketOf(c, now')]
                /\ scen' = [scen EXCEPT ![c] = ScenNext(scen[c], now')]
                /\ admits' = IF r.res = "next"
                             THEN [admits EXCEPT ![c] = AdmitNext(admits[c], now')]
                             ELSE admits

RateLimiter(c, d) ==
    /\ Admit(c, d)
    /\ UNCHANGED <<audit, cacheVars, storeVars, resolverVars, marketVars, surfaceVars>>

\* the books of a bucket: when it was created, the tokens refills have added
\* to it, whether a refill has filled it up, the time of its latest request,
\* the requests admitted, and the reply, estimate and time of the request
\* before the latest one
NoAudit == [t0 |-> 0, added |-> 0, full |-> FALSE, at |-> 0, admitted |-> 0,
            prev |-> [res |-> "none", secs |-> 0, at |-> 0]]
AuditNext(a, fresh, pre, t) ==
    LET post == Refill(pre, t)
        a0 == IF fresh THEN [NoAudit EXCEPT !.t0 = t] ELSE a
    IN  [a0 EXCEPT !.added = a0.added + (post.tokens - pre.tokens),
                   !.full = a0.full \/ (post.last # pre.last /\ post.tokens = CAPACITY),
                   !.at = t]

\* rateLimiter with the books of the refill kept beside it
Audited(c, d) ==
    /\ c \in Chats
    /\ Admit(c, d)
    /\ audit' = [AuditNext(audit, c \notin DOMAIN buckets, BucketOf(c, now'), now')
                    EXCEPT !.admitted = IF rl'.res = "next" THEN audit.admitted + 1
                                        ELSE audit.admitted,
                           !.prev = [res |-> IF rl.chat = c THEN rl.res ELSE "none",
                                     secs |-> rl.secs, at |-> rl.at]]
    /\ UNCHANGED <<cacheVars, storeVars, resolverVars, marketVars, surfaceVars>>

(***************************************************************************)
(* utils/cache.ts: TTLCache                                                *)
(***************************************************************************)
Undefined == "undefined"        \* the JavaScript value undefined

\* clock readings of the cache models: a 15 s grid and the millisecond after
ClockOk(t) == t <= MaxClock /\ (t - StartTime) % 15000 \in {0, 1}

Tick(d) ==
    /\ d \in TickSteps
    /\ ClockOk(ClockAdvance(d))
    /\ now' = ClockAdvance(d)
    /\ UNCHANGED <<limiterVars, surfaceVars, cacheVars, storeVars, resolverVars, marketVars>>

\* mutant: an entry is expired from the instant of its deadline
ExpiredAtDeadline(e, t) == e.expires <= t

Expired(e, t) == e.expires < t

\* TTLCache.get at time t on store st: the value returned and the store left
CacheGet(st, k, t) ==
    IF k \notin DOMAIN st THEN [ret |-> Undefined, store |-> st]
    ELSE IF Expired(st[k], t)
        THEN [ret |-> Undefined, store |-> [j \in DOMAIN st \ {k} |-> st[j]]]
    ELSE [ret |-> st[k].value, store |-> st]

\* TTLCache.set at time t
CacheSet(st, k, v, ttl, t) ==
    [j \in DOMAIN st \cup {k} |-> IF j = k THEN [value |-> v, expires |-> t + ttl] ELSE st[j]]

\* what the latest set of a key stored and the last instant it is good for
NoWrite == [v |-> Undefined, until |-> -1]
NoteWrite(k, v, ttl, t) == [written EXCEPT ![k] = [v |-> v, until |-> t + ttl]]
\* what a read at time t has to return after the latest set w: its value up
\* to and including the instant w.until, undefined after it
DueRead(w, t) == IF t <= w.until THEN w.v ELSE Undefined
\* a read: what it returned, what was due, whether the entry is still stored
\* and whether it was stored with an expiry before the read
NoteGet(k, g, t) ==
    [key |-> k, ret |-> g.ret, due |-> DueRead(written[k], t),
     kept |-> k \in DOMAIN g.store,
     late |-> written[k] # NoWrite /\ t > written[k].until,
     edge |-> t = written[k].until,
     stale |-> g.ret # Undefined /\ cache[k].expires < t]

\* services/dexscreener.ts: the cache-backed operations, their TTL and the
\* results their producers can resolve with
DexOps == {"pair", "contract"}
DexKey(op) == IF op = "pair" THEN "dex:pair:eth:0xp" ELSE "dex:contract:0xc"
DexTtl(op) == IF op = "pair" THEN 60000 ELSE 45000
DexResults(op) == IF op = "pair" THEN {"pairA", "pairB", Undefined} ELSE {"pairsA"}
CacheKeys == {DexKey(op) : op \in DexOps}
CacheValues == UNION {DexResults(op) : op \in DexOps}
CacheTtls == {DexTtl(op) : op \in DexOps}

\* found, foundValue: the key held an unexpired entry when the call began;
\* made: what the call's own producer resolved with; conc: another call for
\* the same key was awaiting its producer while this one was; fin: when the
\* call stored its result; last: no call has stored under the key since
IdleCall == [pc |-> "idle", op |-> "pair", ret |-> Undefined,
             found |-> FALSE, foundValue |-> Undefined, ran |-> FALSE,
             made |-> Undefined, conc |-> FALSE, fin |-> 0, last |-> FALSE]

\* sharedCache.get(key)
Get(k) ==
    /\ k \in CacheKeys
    /\ LET g == CacheGet(cache, k, now)
       IN  /\ cache' = g.store
           /\ lastGet' = NoteGet(k, g, now)
    /\ UNCHANGED <<now, limiterVars, surfaceVars, storeVars, resolverVars, marketVars, written, calls>>

\* sharedCache.set(key, value, ttlMs)
Set(k, v, ttl) ==
    /\ k \in CacheKeys /\ v \in CacheValues /\ ttl \in CacheTtls
    /\ cache' = CacheSet(cache, k, v, ttl, now)
    /\ written' = NoteWrite(k, v, ttl, now)
    /\ UNCHANGED <<now, limiterVars, surfaceVars, storeVars, resolverVars, marketVars, lastGet, calls>>

\* sharedCache.clear()
Clear ==
    /\ cache # << >>
    /\ cache' = << >>
    /\ written' = [k \in CacheKeys |-> NoWrite]
    /\ UNCHANGED <<now, limiterVars, surfaceVars, storeVars, resolverVars, marketVars, lastGet, calls>>

\* sharedCache.with(key, fn, ttl), up to the await of fn()
WithBegin(p, op) ==
    /\ p \in Procs /\ op \in DexOps
    /\ calls[p].pc # "producing"
    /\ LET k == DexKey(op)
           g == CacheGet(cache, k, now)
           found == k \in DOMAIN cache /\ cache[k].expires >= now
           foundValue == IF found THEN cache[k].value ELSE Undefined
       IN  /\ cache' = g.store
           /\ lastGet' = NoteGet(k, g, now)
           /\ IF g.ret # Undefined
              THEN calls' = [calls EXCEPT ![p] = [IdleCall EXCEPT !.pc = "done", !.op = op,
                                !.ret = g.ret, !.found = found, !.foundValue = foundValue]]
              ELSE LET others == {q \in Procs \ {p} :
                                    calls[q].pc = "producing" /\ calls[q].op = op}
                   IN  calls' = [q \in Procs |->
                            IF q = p
                            THEN [IdleCall EXCEPT !.pc = "producing", !.op = op,
                                    !.found = found, !.foundValue = foundValue,
                                    !.ran = TRUE, !.conc = (others # {})]
                            ELSE IF q \in others THEN [calls[q] EXCEPT !.conc = TRUE]
                            ELSE calls[q]]
    /\ UNCHANGED <<now, limiterVars, surfaceVars, storeVars, resolverVars, marketVars, written>>

\* the calls once p has stored and returned v
Finished(p, v) ==
    [q \in Procs |->
        IF q = p THEN [calls[p] EXCEPT !.pc = "done", !.ret = v, !.made = v,
                                       !.fin = now, !.last = TRUE]
        ELSE IF calls[q].op = calls[p].op THEN [calls[q] EXCEPT !.last = FALSE]
        ELSE calls[q]]

\* mutant: the result is stored only while the key is still absent
ProducerOkFirstWins(p, v) ==
    /\ p \in Procs
    /\ calls[p].pc = "producing"
    /\ v \in DexResults(calls[p].op)
    /\ LET k == DexKey(calls[p].op)
           ttl == DexTtl(calls[p].op)
       IN  IF k \in DOMAIN cache
           THEN UNCHANGED <<cache, written>>
           ELSE /\ cache' = CacheSet(cache, k, v, ttl, now)
                /\ written' = NoteWrite(k, v, ttl, now)
    /\ calls' = Finished(p, v)
    /\ UNCHANGED <<now, limiterVars, surfaceVars, storeVars, resolverVars, marketVars, lastGet>>

\* fn() resolves with v: this.set(key, fresh, ttlMs); return fresh
ProducerOk(p, v) ==
    /\ p \in Procs
    /\ calls[p].pc = "producing"
    /\ v \in DexResults(calls[p].op)
    /\ LET k == DexKey(calls[p].op)
           ttl == DexTtl(calls[p].op)
       IN  /\ cache' = CacheSet(cache, k, v, ttl, now)
           /\ written' = NoteWrite(k, v, ttl, now)
    /\ calls' = Finished(p, v)
    /\ UNCHANGED <<now, limiterVars, surfaceVars, storeVars, resolverVars, marketVars, lastGet>>

\* fn() rejects: the rejection leaves with() before set
ProducerFail(p) ==
    /\ p \in Procs
    /\ calls[p].pc = "producing"
    /\ calls' = [calls EXCEPT ![p].pc = "failed"]
    /\ UNCHANGED <<now, limiterVars, surfaceVars, storeVars, resolverVars, marketVars, cache, written, lastGet>>

NextCache ==
    \/ \E k \in CacheKeys : Get(k)
    \/ \E k \in CacheKeys, v \in CacheValues, ttl \in CacheTtls : Set(k, v, ttl)
    \/ Clear
    \/ \E d \in TickSteps : Tick(d)

NextWith ==
    \/ \E p \in Procs, op \in DexOps : WithBegin(p, op)
    \/ \E p \in Procs, v \in CacheValues : ProducerOk(p, v)
    \/ \E p \in Procs : ProducerFail(p)
    \/ \E d \in TickSteps : Tick(d)

(***************************************************************************)
(* utils/cbStore.ts: the one-shot callback store                           *)
(***************************************************************************)
TTL_MS == 300000
Null == 0                       \* takePayload's null; payloads are 1, 2, ...
StoreTtls == {TTL_MS}
StoreSteps == {1, 150000}

StoreTick(d) ==
    /\ d \in StoreSteps
    /\ ClockAdvance(d) <= MaxStoreClock
    /\ (ClockAdvance(d) - StartTime) % 150000 \in {0, 1}
    /\ now' = ClockAdvance(d)
    /\ UNCHANGED <<limiterVars, surfaceVars, cacheVars, storeVars, resolverVars, marketVars>>

\* mutant: gc() drops nothing
GcIdle(st, t) == st

\* gc(): drop the entries whose exp is before t
Gc(st, t) == [k \in {j \in DOMAIN st : ~(st[j].exp < t)} |-> st[k]]

\* mutant: the new entry is the only one left
StorePutAlone(st, id, v, exp) == [k \in {id} |-> [v |-> v, exp |-> exp]]

\* store.set(id, {v, exp})
StorePut(st, id, v, exp) ==
    [k \in DOMAIN st \cup {id} |-> IF k = id THEN [v |-> v, exp |-> exp] ELSE st[k]]

\* mutant: a hit is returned but not deleted
StoreKeep(st, id) == st

\* store.delete(id)
StoreDelete(st, id) == [k \in DOMAIN st \ {id} |-> st[k]]

\* payloads put under id that no take(id) has asked for yet
Unasked(id) == {n \in 1..nput : pend[n].id = id /\ pend[n].state = "stored"}

\* the payload stored by the latest put that returned id (0 when there is none)
LatestPut(id) ==
    LET ns == {n \in 1..nput : pend[n].id = id}
    IN  IF ns = {} THEN 0 ELSE CHOOSE n \in ns : \A m \in ns : m <= n

\* no entry of st has an expiry before t
Clean(st, t) == \A j \in DOMAIN st : st[j].exp >= t

\* what is noted of a put: the id it returned, the deadline, whether a take
\* has asked for it; clean: no expired entry was left by the call; fresh: the
\* id was not held when it was drawn; others: every unexpired entry under
\* another id was left as it was; beside: there was such an entry;
\* replaced: the entry under the id is the new payload
NoPut == [id |-> "", until |-> -1, state |-> "none", clean |-> TRUE, fresh |-> TRUE,
          others |-> TRUE, beside |-> FALSE, replaced |-> TRUE]

\* putPayload(value, ttlMs): randomId() may return any identifier
PutPayload(id, ttl) ==
    /\ id \in Ids /\ ttl \in StoreTtls
    /\ nput < MaxPuts
    /\ nput' = nput + 1
    /\ store' = StorePut(Gc(store, now), id, nput + 1, now + ttl)
    /\ LET live == {j \in DOMAIN store : store[j].exp >= now}
       IN  pend' = [pend EXCEPT ![nput + 1] =
                [id |-> id, until |-> now + ttl, state |-> "stored",
                 clean |-> Clean(store', now),
                 fresh |-> id \notin live,
                 others |-> \A j \in live \ {id} :
                                j \in DOMAIN store' /\ store'[j] = store[j],
                 beside |-> live \ {id} # {},
                 replaced |-> id \in DOMAIN store' /\ store'[id].v = nput + 1]]
    /\ UNCHANGED <<now, limiterVars, surfaceVars, cacheVars, resolverVars, marketVars, lastTake, returned>>

\* takePayload(id)
TakePayload(id) ==
    /\ id \in Ids
    /\ LET st == Gc(store, now)
           hit == id \in DOMAIN st
           ret == IF hit THEN st[id].v ELSE Null
           owed == {n \in Unasked(id) : now < pend[n].until}
       IN  /\ store' = IF hit THEN StoreDelete(st, id) ELSE st
           /\ lastTake' = [id |-> id, ret |-> ret,
                           first |-> \A n \in owed : ret = n,
                           firstLatest |-> \A n \in owed : n = LatestPut(id) => ret = n,
                           asked |-> owed # {},
                           later |-> Unasked(id) = {} => ret = Null,
                           kept |-> id \in DOMAIN store',
                           clean |-> Clean(store', now),
                           lapsed |-> \E n \in Unasked(id) :
                                         /\ id \in DOMAIN store /\ store[id].v = n
                                         /\ pend[n].until < now]
           /\ returned' = IF ret = Null THEN returned
                          ELSE [returned EXCEPT ![ret] = Min(2, returned[ret] + 1)]
    /\ pend' = [n \in 1..MaxPuts |->
                    IF n \in Unasked(id) THEN [pend[n] EXCEPT !.state = "asked"] ELSE pend[n]]
    /\ UNCHANGED <<now, limiterVars, surfaceVars, cacheVars, resolverVars, marketVars, nput>>

NextStore ==
    \/ \E id \in Ids, ttl \in StoreTtls : PutPayload(id, ttl)
    \/ \E id \in Ids : TakePayload(id)
    \/ \E d \in StoreSteps : StoreTick(d)

(***************************************************************************)
(* Strings are sequences of one-character strings, so that trim(),         *)
(* toLowerCase() and the address pattern are computed, not assumed.        *)
(***************************************************************************)
UpperCase == <<"A", "B", "C", "D", "E", "F", "G", "H", "I", "J", "K", "L", "M", "N", "O", "P", "Q", "R", "S", "T", "U", "V", "W", "X", "Y", "Z">>
LowerCase == <<"a", "b", "c", "d", "e", "f", "g", "h", "i", "j", "k", "l", "m", "n", "o", "p", "q", "r", "s", "t", "u", "v", "w", "x", "y", "z">>
Digits == {"0", "1", "2", "3", "4", "5", "6", "7", "8", "9"}
HexChars == Digits \cup {"a", "b", "c", "d", "e", "f", "A", "B", "C", "D", "E", "F"}
WhiteSpace == {" ", "\t", "\n"}

ToLowerChar(c) ==
    IF \E i \in 1..26 : UpperCase[i] = c
    THEN LowerCase[CHOOSE i \in 1..26 : UpperCase[i] = c]
    ELSE c
ToUpperChar(c) ==
    IF \E i \in 1..26 : LowerCase[i] = c
    THEN UpperCase[CHOOSE i \in 1..26 : LowerCase[i] = c]
    ELSE c
ToLowerCase(s) == [i \in 1..Len(s) |-> ToLowerChar(s[i])]
ToUpperCase(s) == [i \in 1..Len(s) |-> ToUpperChar(s[i])]

RECURSIVE TrimStart(_)
TrimStart(s) == IF s # << >> /\ Head(s) \in WhiteSpace THEN TrimStart(Tail(s)) ELSE s
RECURSIVE TrimEnd(_)
TrimEnd(s) ==
    IF s # << >> /\ s[Len(s)] \in WhiteSpace THEN TrimEnd(SubSeq(s, 1, Len(s) - 1)) ELSE s
Trim(s) == TrimEnd(TrimStart(s))

\* Array.prototype.sort with comparator Cmp: a stable sort
StableSort(s, Cmp(_, _)) ==
    LET n == Len(s)
        Before(i) == {j \in 1..n : Cmp(s[j], s[i]) < 0 \/ (Cmp(s[j], s[i]) = 0 /\ j < i)}
    IN  [p \in 1..n |-> s[CHOOSE i \in 1..n : Cardinality(Before(i)) + 1 = p]]

Slice(s, n) == SubSeq(s, 1, Min(n, Len(s)))

(***************************************************************************)
(* services/resolver.ts                                                    *)
(***************************************************************************)
AddressHexLen == 40

\* mutant: the pattern asks for one hex character less
IsAddressShort(s) ==
    /\ Len(s) = 1 + AddressHexLen
    /\ s[1] = "0" /\ s[2] = "x"
    /\ \A i \in 3..(1 + AddressHexLen) : s[i] \in HexChars

\* mutant: the pattern is not anchored at its end
IsAddressUnanchored(s) ==
    /\ Len(s) >= 2 + AddressHexLen
    /\ s[1] = "0" /\ s[2] = "x"
    /\ \A i \in 3..(2 + AddressHexLen) : s[i] \in HexChars

\* isAddress: /^0x[a-fA-F0-9]{40}$/
IsAddress(s) ==
    /\ Len(s) = 2 + AddressHexLen
    /\ s[1] = "0" /\ s[2] = "x"
    /\ \A i \in 3..(2 + AddressHexLen) : s[i] \in HexChars

WethAddress == <<"0", "x", "C", "0", "2", "a", "a", "A", "3", "9", "b", "2", "2", "3", "F", "E", "8", "D", "0", "A", "0", "e", "5", "C", "4", "F", "2", "7", "e", "A", "D", "9", "0", "8", "3", "C", "7", "5", "6", "C", "c", "2">>
WbtcAddress == <<"0", "x", "2", "2", "6", "0", "F", "A", "C", "5", "E", "5", "5", "4", "2", "a", "7", "7", "3", "A", "a", "4", "4", "f", "B", "C", "f", "e", "D", "f", "7", "C", "1", "9", "3", "b", "c", "2", "C", "5", "9", "9">>

Eth == <<"e", "t", "h">>
Btc == <<"b", "t", "c">>
SPECIAL_MAP ==
    [k \in {Eth, Btc} |->
        IF k = Eth THEN [address |-> WethAddress, note |-> "Mapped to WETH (Ethereum)"]
        ELSE [address |-> WbtcAddress, note |-> "Mapped to WBTC (Ethereum)"]]

GOOD_QUOTES == {<<"U", "S", "D", "C">>, <<"U", "S", "D", "T">>, <<"W", "E", "T", "H">>,
                <<"W", "B", "N", "B">>, <<"B", "U", "S", "D">>, <<"W", "B", "T", "C">>}

\* what the upstream services can answer
SolanaMint == <<"S", "o", "1", "1">>                \* a base address that is no EVM address
OtherAddress == [i \in 1..42 |-> IF i = 1 THEN "0" ELSE IF i = 2 THEN "x" ELSE "d"]
PairA == [base |-> WethAddress, quote |-> <<"u", "s", "d", "c">>, liq |-> 1, vol |-> 1,
          pairAddress |-> "0xpa", chainId |-> "ethereum"]
PairB == [base |-> OtherAddress, quote |-> <<"M", "E", "M", "E">>, liq |-> 2, vol |-> 0,
          pairAddress |-> "0xpb", chainId |-> "bsc"]
PairS == [base |-> SolanaMint, quote |-> <<"S", "O", "L">>, liq |-> 2, vol |-> 2,
          pairAddress |-> "solp", chainId |-> "solana"]
PairN == [base |-> << >>, quote |-> << >>, liq |-> 0, vol |-> 0,
          pairAddress |-> "", chainId |-> ""]
PairC == [base |-> WbtcAddress, quote |-> <<"W", "e", "t", "h">>, liq |-> 3, vol |-> 0,
          pairAddress |-> "0xpc", chainId |-> "base"]
PairT == [base |-> << >>, quote |-> <<"U", "S", "D", "T">>, liq |-> 2, vol |-> 2,
          pairAddress |-> "0xpt", chainId |-> "ethereum"]
LongAddress == OtherAddress \o <<"d">>            \* 0x and 41 hex characters
PairL == [base |-> LongAddress, quote |-> <<"U", "S", "D", "C">>, liq |-> 1, vol |-> 1,
          pairAddress |-> "0xpl", chainId |-> "ethereum"]
PairUniverse == {PairA, PairB, PairC, PairS, PairT, PairN}
MaxPairs == 2           \* pairs in one upstream search answer
UpstreamLists == UNION {[1..n -> PairUniverse] : n \in 0..MaxPairs}

\* the pair-detail answers: (data?.pairs ?? [])[0] is a pair or undefined
UndefinedPair == [base |-> << >>, quote |-> << >>, liq |-> 0, vol |-> 0,
                  pairAddress |-> "undefined", chainId |-> "undefined"]
DetailAnswers == {PairA, PairS, PairL, UndefinedPair}

\* an upstream search answer longer than the limit the resolver asks for: pairs
\* with a pair address and a chain id and no base address, each its own pair
LongLen == 9
LongPair(i) == [PairT EXCEPT !.pairAddress = "0xpt" \o ToString(i)]
LongLists == {[i \in 1..LongLen |-> LongPair(i)]}

\* aggregator search answers (coins with id and market_cap_rank, -1: no rank)
\* and the platforms of a coin profile, in the order the resolver scans them
NoRankValue == 1000000000
CoinLists == {<< >>, <<[id |-> "wrapped-bitcoin", rank |-> 12]>>,
              <<[id |-> "fake-btc", rank |-> -1], [id |-> "wrapped-bitcoin", rank |-> 12]>>}
PlatformOrder == <<"ethereum", "bsc", "polygon_pos", "arbitrum_one", "avalanche",
                   "base", "optimism", "fantom">>
Platforms(eth, bsc) ==
    [n \in {PlatformOrder[i] : i \in 1..8} |->
        IF n = "ethereum" THEN eth ELSE IF n = "bsc" THEN bsc ELSE << >>]
PlatformAnswers == {Platforms(<< >>, << >>), Platforms(SolanaMint, OtherAddress),
                    Platforms(WbtcAddress, OtherAddress), Platforms(LongAddress, << >>)}

\* queries: address-shaped strings of 39..41 characters after the prefix,
\* the WBTC address in lower case, in checksum case and padded, and symbols
BodyChars == {"a", "F", "g"}
Body(c1, c2, n) == [i \in 1..n |-> IF i % 2 = 1 THEN c1 ELSE c2]
AddressLike ==
    {p \o Body(c1, c2, n) : p \in {<<"0", "x">>, <<"0", "X">>},
                            c1 \in BodyChars, c2 \in BodyChars,
                            n \in (AddressHexLen - 1)..(AddressHexLen + 1)}
SymbolQueries == {Btc, <<"B", "T", "C">>, <<" ", "E", "t", "h">>, <<"p", "e", "p", "e">>}
Queries ==
    AddressLike \cup SymbolQueries
        \cup {WbtcAddress, ToLowerCase(WbtcAddress), <<" ">> \o WbtcAddress \o <<"\n">>}

NoResult == [address |-> << >>, source |-> "null", note |-> ""]
IdleResolve ==
    [pc |-> "idle", query |-> << >>, q |-> << >>, pairs |-> << >>, i |-> 0, topId |-> "",
     result |-> NoResult, nSearch |-> 0, nPair |-> 0, nCg |-> 0, nOk |-> 0, cached |-> FALSE,
     visited |-> << >>, details |-> << >>, cg |-> "none"]

\* the loop of stage 2 calls getPairByChainAndAddress for pairs[i] and gets d
\* (failed: the call rejected)
Visit(r, i, d, failed) ==
    [r EXCEPT !.visited = Append(r.visited, i),
              !.details = Append(r.details, [base |-> d.base, failed |-> failed])]

\* TTLCache.get as a lookup: whether an unexpired entry is there, and the store left
CacheLookup(st, k, t) ==
    [hit |-> k \in DOMAIN st /\ ~Expired(st[k], t),
     store |-> IF k \in DOMAIN st /\ Expired(st[k], t)
               THEN [j \in DOMAIN st \ {k} |-> st[j]] ELSE st]

\* mutant: the limit is no part of the key
SearchKeyNoLimit(q, limit) == <<"dex:search", ToLowerCase(q), 0>>

SearchKey(q, limit) == <<"dex:search", ToLowerCase(q), limit>>
PairKey(chainId, pairAddress) == <<"dex:pair", chainId, pairAddress>>
SEARCH_TTL == 60000
PAIR_TTL == 60000
SEARCH_LIMIT == 8

\* dexscreener.ts searchDexPairs: the producer's sort and slice
\* p?.liquidity?.usd ?? 0 and p?.volume?.h24 ?? 0 (-1: the field is missing)
LiqOf(p) == IF p.liq = -1 THEN 0 ELSE p.liq
VolOf(p) == IF p.vol = -1 THEN 0 ELSE p.vol
\* mutant: liquidity alone orders the pairs
SearchCmpLiquidity(a, b) == LiqOf(b) - LiqOf(a)

SearchCmp(a, b) ==
    IF LiqOf(b) - LiqOf(a) # 0 THEN LiqOf(b) - LiqOf(a) ELSE VolOf(b) - VolOf(a)
\* mutant: the sorted list is returned whole
SearchResultUnsliced(raw, limit) == StableSort(raw, SearchCmp)

SearchResult(raw, limit) == Slice(StableSort(raw, SearchCmp), limit)

\* resolver.ts stage 1
HasBase(p) == p.base # << >> /\ IsAddress(p.base)
GoodQuote(p) == IF ToUpperCase(p.quote) \in GOOD_QUOTES THEN 1 ELSE 0
\* mutant: liquidity alone decides
QuoteCmpLiquidity(a, b) == b.liq - a.liq

QuoteCmp(a, b) ==
    IF GoodQuote(b) - GoodQuote(a) # 0 THEN GoodQuote(b) - GoodQuote(a) ELSE b.liq - a.liq
WithAddr(pairs) == StableSort(SelectSeq(pairs, HasBase), QuoteCmp)

Done(r, address, source, note) ==
    [r EXCEPT !.pc = "done", !.result = [address |-> address, source |-> source, note |-> note]]

\* resolver.ts stage 4: SPECIAL_MAP[q]
Special(r) ==
    IF r.q \in DOMAIN SPECIAL_MAP
    THEN Done(r, SPECIAL_MAP[r.q].address, "special", SPECIAL_MAP[r.q].note)
    ELSE [r EXCEPT !.pc = "done", !.result = NoResult]

\* mutant: the aggregator stage is left out
ToAggregatorSkipped(r) == Special(r)

\* resolver.ts stage 3 begins: the aggregator search request is issued
ToAggregator(r) == [r EXCEPT !.pc = "cgSearch", !.nCg = r.nCg + 1]

\* resolver.ts stage 2: the loop over pairs from index i on, as far as it runs
\* without waiting for the network (cached details are used at once)
RECURSIVE PairLoop(_, _, _, _)
PairLoop(r, st, i, t) ==
    IF i > Len(r.pairs) THEN [r |-> ToAggregator(r), store |-> st]
    ELSE LET p == r.pairs[i]
         IN  IF p.pairAddress = "" \/ p.chainId = ""
             THEN PairLoop(r, st, i + 1, t)
             ELSE LET k == PairKey(p.chainId, p.pairAddress)
                      l == CacheLookup(st, k, t)
                  IN  IF l.hit /\ st[k].value # UndefinedPair
                      THEN IF HasBase(st[k].value)
                           THEN [r |-> Done(Visit(r, i, st[k].value, FALSE),
                                            st[k].value.base, "pair", ""),
                                 store |-> l.store]
                           ELSE PairLoop(Visit(r, i, st[k].value, FALSE), l.store, i + 1, t)
                      ELSE [r |-> [r EXCEPT !.pc = "pairs", !.i = i, !.nPair = r.nPair + 1],
                            store |-> l.store]

\* resolver.ts lines 33-58, once searchDexPairs has returned pairs
AfterSearch(r, st, pairs, t) ==
    LET withAddr == WithAddr(pairs)
        r1 == [r EXCEPT !.pairs = pairs]
    IN  IF withAddr # << >>
        THEN [r |-> Done(r1, withAddr[1].base, "dex", ""), store |-> st]
        ELSE PairLoop(r1, st, 1, t)

RankOf(c) == IF c.rank = -1 THEN NoRankValue ELSE c.rank
RankCmp(a, b) == RankOf(a) - RankOf(b)

\* resolver.ts lines 76-88: the first platform address that is an EVM address
PlatformAddress(pl) ==
    LET candidates == SelectSeq([i \in 1..8 |-> pl[PlatformOrder[i]]], LAMBDA a : a # << >>)
        evm == SelectSeq(candidates, IsAddress)
    IN  IF evm = << >> THEN << >> ELSE evm[1]

\* resolveContractFromQuery(query), up to its first wait for the network
Resolve(query) ==
    /\ query \in Queries
    /\ rs.pc \in {"idle", "done", "failed"}
    /\ nres < MaxResolves
    /\ nres' = nres + 1
    /\ LET q == ToLowerCase(Trim(query))
           r == [IdleResolve EXCEPT !.query = query, !.q = q]
           k == SearchKey(q, SEARCH_LIMIT)
           l == CacheLookup(cache, k, now)
       IN  IF IsAddress(q)
           THEN /\ rs' = Done(r, q, "dex", "")
                /\ UNCHANGED cache
           ELSE IF l.hit
           THEN LET a == AfterSearch([r EXCEPT !.cached = TRUE], l.store, cache[k].value, now)
                IN  rs' = a.r /\ cache' = a.store
           ELSE /\ rs' = [r EXCEPT !.pc = "search", !.nSearch = 1]
                /\ cache' = l.store
    /\ UNCHANGED <<now, limiterVars, surfaceVars, written, lastGet, calls, storeVars, marketVars>>

\* the DEX search request answers: searchDexPairs sorts, slices and caches
SearchOk(raw) ==
    /\ raw \in UpstreamLists \cup LongLists
    /\ rs.pc = "search"
    /\ LET pairs == SearchResult(raw, SEARCH_LIMIT)
           st == CacheSet(cache, SearchKey(rs.q, SEARCH_LIMIT), pairs, SEARCH_TTL, now)
           a == AfterSearch([rs EXCEPT !.nOk = rs.nOk + 1], st, pairs, now)
       IN  rs' = a.r /\ cache' = a.store
    /\ UNCHANGED <<now, limiterVars, surfaceVars, written, lastGet, calls, storeVars, nres, marketVars>>

\* the DEX search request fails: nothing around line 32 catches it
SearchFail ==
    /\ rs.pc = "search"
    /\ rs' = [rs EXCEPT !.pc = "failed"]
    /\ UNCHANGED <<now, limiterVars, surfaceVars, cacheVars, storeVars, nres, marketVars>>

\* a pair-detail request answers
PairOk(d) ==
    /\ d \in DetailAnswers
    /\ rs.pc = "pairs"
    /\ LET p == rs.pairs[rs.i]
           st == CacheSet(cache, PairKey(p.chainId, p.pairAddress), d, PAIR_TTL, now)
           r == Visit([rs EXCEPT !.nOk = rs.nOk + 1], rs.i, d, FALSE)
           a == IF d # UndefinedPair /\ HasBase(d)
                THEN [r |-> Done(r, d.base, "pair", ""), store |-> st]
                ELSE PairLoop(r, st, rs.i + 1, now)
       IN  rs' = a.r /\ cache' = a.store
    /\ UNCHANGED <<now, limiterVars, surfaceVars, written, lastGet, calls, storeVars, nres, marketVars>>

\* mutant: a failed pair-detail request ends the loop
PairFailEndsLoop ==
    /\ rs.pc = "pairs"
    /\ rs' = ToAggregator(Visit(rs, rs.i, UndefinedPair, TRUE))
    /\ UNCHANGED <<now, limiterVars, surfaceVars, cacheVars, storeVars, nres, marketVars>>

\* a pair-detail request fails: catch {} and the loop goes on
PairFail ==
    /\ rs.pc = "pairs"
    /\ LET a == PairLoop(Visit(rs, rs.i, UndefinedPair, TRUE), cache, rs.i + 1, now)
       IN  rs' = a.r /\ cache' = a.store
    /\ UNCHANGED <<now, limiterVars, surfaceVars, written, lastGet, calls, storeVars, nres, marketVars>>

\* the aggregator search answers
CgSearchOk(coins) ==
    /\ coins \in CoinLists
    /\ rs.pc = "cgSearch"
    /\ LET r == [rs EXCEPT !.nOk = rs.nOk + 1]
       IN  rs' = IF coins = << >> THEN Special([r EXCEPT !.cg = "empty"])
                 ELSE [r EXCEPT !.pc = "cgFull", !.nCg = r.nCg + 1,
                                !.topId = StableSort(coins, RankCmp)[1].id]
    /\ UNCHANGED <<now, limiterVars, surfaceVars, cacheVars, storeVars, nres, marketVars>>

\* mutant: the failure of an aggregator request rejects the call
CgFailPropagates ==
    /\ rs.pc \in {"cgSearch", "cgFull"}
    /\ rs' = [rs EXCEPT !.pc = "failed", !.cg = "failed"]
    /\ UNCHANGED <<now, limiterVars, surfaceVars, cacheVars, storeVars, nres, marketVars>>

\* the aggregator search or the profile request fails: catch {}
CgFail ==
    /\ rs.pc \in {"cgSearch", "cgFull"}
    /\ rs' = Special([rs EXCEPT !.cg = "failed"])
    /\ UNCHANGED <<now, limiterVars, surfaceVars, cacheVars, storeVars, nres, marketVars>>

\* the profile request answers
CgFullOk(pl) ==
    /\ pl \in PlatformAnswers
    /\ rs.pc = "cgFull"
    /\ LET r == [rs EXCEPT !.nOk = rs.nOk + 1]
           evm == PlatformAddress(pl)
       IN  rs' = IF evm # << >> THEN Done([r EXCEPT !.cg = "found"], evm, "coingecko", "")
                 ELSE Special([r EXCEPT !.cg = "noevm"])
    /\ UNCHANGED <<now, limiterVars, surfaceVars, cacheVars, storeVars, nres, marketVars>>

\* time passes between two steps of the resolver, past every cache TTL
ResolverTick ==
    /\ ClockAdvance(SEARCH_TTL + 1) <= MaxClock
    /\ now' = ClockAdvance(SEARCH_TTL + 1)
    /\ UNCHANGED <<limiterVars, surfaceVars, cacheVars, storeVars, rs, nres, marketVars>>

NextResolver ==
    \/ \E query \in Queries : Resolve(query)
    \/ \E raw \in UpstreamLists : SearchOk(raw)
    \/ SearchFail
    \/ \E d \in DetailAnswers : PairOk(d)
    \/ PairFail
    \/ \E coins \in CoinLists : CgSearchOk(coins)
    \/ CgFail
    \/ \E pl \in PlatformAnswers : CgFullOk(pl)
    \/ ResolverTick

\* the resolver with a long search answer: every request it waits for settles
\* (http.ts gives each request a timeout), one caller
LiveQueries == {Btc, <<"p", "e", "p", "e">>, WbtcAddress}
LiveLists == LongLists \cup {<< >>, <<PairA>>}
LiveDetails == {PairA, UndefinedPair}

Settle ==
    \/ \E raw \in LiveLists : SearchOk(raw)
    \/ SearchFail
    \/ \E d \in LiveDetails : PairOk(d)
    \/ PairFail
    \/ \E coins \in CoinLists : CgSearchOk(coins)
    \/ CgFail
    \/ \E pl \in PlatformAnswers : CgFullOk(pl)

NextResolverLive ==
    \/ \E query \in LiveQueries : Resolve(query)
    \/ Settle
    \/ ResolverTick

(***************************************************************************)
(* services/coingecko.ts                                                   *)
(***************************************************************************)
MEM_TTL_MS == 45000
DB_TTL_SEC == 45
RETRY_SLEEP_MS == 400

SymbolInputs == {Btc, <<" ", "B", "T", "C">>}
OddSymbols == {<<"$", "$">>, <<" ">>}       \* text that is no symbol
SymbolKey(symbol) == <<"cg:symbol", ToLowerCase(Trim(symbol))>>
MarketKeys == {SymbolKey(s) : s \in SymbolInputs}
Snapshots == {"snapA", "snapB"}         \* CoinInfo values a live fetch can build
FailStatus == {429, 500, 499, 0}        \* HTTP status of a failed fetch, 0: no response

\* what a rejected await throws: its kind and e?.response?.status (0: undefined)
NoError == <<"none", 0>>
HttpError(status) == IF status = 0 THEN <<"network", 0>> ELSE <<"http", status>>
DbError == <<"db", 0>>
StatusOf(e) == e[2]
NotFound == <<"notfound", 0>>       \* Error("Symbol ... not found on CoinGecko")
NoMarketData == <<"nomarket", 0>>   \* Error("No market data for ...")
MarketFailStatus == {429, 499}      \* the statuses drawn where two callers run

IdleMarket ==
    [pc |-> "idle", key |-> << >>, t0 |-> 0, value |-> Undefined, ttlAt |-> 0,
     attempts |-> 0, dbReads |-> 0, ret |-> Undefined,
     memFound |-> FALSE, memValue |-> Undefined,
     rowFuture |-> FALSE, rowPayload |-> Undefined, backfilled |-> FALSE,
     err |-> NoError, firstErr |-> NoError, order |-> << >>,
     tUpsert |-> 0, rowHeld |-> FALSE, memHeld |-> FALSE, age |-> 0, via |-> "none"]

\* the fetch behind the value now stored in memory under k completed at t
PutBorn(k, t) == [j \in DOMAIN born \cup {k} |-> IF j = k THEN t ELSE born[j]]
\* a row is written with ttlAt = completion of its fetch + DB_TTL_SEC
RowBorn(row) == row.ttlAt - DB_TTL_SEC * 1000

\* mutant: the comparison of the row's ttlAt is the wrong way round
RowValidReversed(row, t) == row.ttlAt < t

\* dbRow.ttlAt > now
RowValid(row, t) == row.ttlAt > t

\* mutant: every failure counts as transient
TransientAlways(status) == TRUE

\* status === 429 || (status && status >= 500)
Transient(status) == status = 429 \/ (status # 0 /\ status >= 500)

DbUpsert(d, k, payload, ttlAt) ==
    [j \in DOMAIN d \cup {k} |-> IF j = k THEN [payload |-> payload, ttlAt |-> ttlAt] ELSE d[j]]

\* getCoinGeckoBySymbol(symbol) up to the await of findUnique
MarketEnter(p, symbol) ==
    /\ p \in Procs /\ symbol \in SymbolInputs \cup OddSymbols
    /\ mk[p].pc \in {"idle", "done", "failed"}
    /\ LET k == SymbolKey(symbol)
           g == CacheGet(cache, k, now)
           found == k \in DOMAIN cache /\ cache[k].expires >= now
           c == [IdleMarket EXCEPT !.key = k, !.t0 = now, !.memFound = found,
                    !.memValue = IF found THEN cache[k].value ELSE Undefined]
       IN  /\ cache' = g.store
           /\ mk' = [mk EXCEPT ![p] =
                        IF g.ret # Undefined
                        THEN [c EXCEPT !.pc = "done", !.ret = g.ret, !.via = "mem",
                                       !.age = IF k \in DOMAIN born THEN now - born[k] ELSE 0]
                        ELSE [c EXCEPT !.pc = "db"]]

MarketBegin(p, symbol) ==
    /\ MarketEnter(p, symbol)
    /\ UNCHANGED <<now, limiterVars, surfaceVars, written, lastGet, calls, storeVars, resolverVars, db, ft, born>>

\* findUnique answers: a valid row is returned and written to the memory cache
DbRead(p) ==
    /\ p \in Procs
    /\ mk[p].pc = "db"
    /\ LET k == mk[p].key
           has == k \in DOMAIN db
           c == [mk[p] EXCEPT !.dbReads = mk[p].dbReads + 1,
                    !.rowFuture = has /\ db[k].ttlAt > now,
                    !.rowPayload = IF has THEN db[k].payload ELSE Undefined]
       IN  IF has /\ RowValid(db[k], mk[p].t0)
           THEN /\ cache' = CacheSet(cache, k, db[k].payload, MEM_TTL_MS, now)
                /\ mk' = [mk EXCEPT ![p] = [c EXCEPT !.pc = "done", !.ret = db[k].payload,
                            !.via = "row", !.age = now - RowBorn(db[k]),
                            !.backfilled = cache'[k] = [value |-> db[k].payload,
                                                        expires |-> now + 45000]]]
                /\ born' = PutBorn(k, RowBorn(db[k]))
           ELSE /\ mk' = [mk EXCEPT ![p] = [c EXCEPT !.pc = "fetch", !.attempts = 1]]
                /\ UNCHANGED <<cache, born>>
    /\ UNCHANGED <<now, limiterVars, surfaceVars, written, lastGet, calls, storeVars, resolverVars, db, ft>>

\* findUnique rejects
DbReadFail(p) ==
    /\ p \in Procs
    /\ mk[p].pc = "db"
    /\ mk' = [mk EXCEPT ![p].pc = "failed", ![p].dbReads = mk[p].dbReads + 1,
                        ![p].err = DbError]
    /\ UNCHANGED <<now, limiterVars, surfaceVars, cacheVars, storeVars, resolverVars, db, ft, born>>

\* mutant: the row's TTL is taken in milliseconds
FetchedShortTtl(c, v, t) ==
    [c EXCEPT !.pc = "upsert", !.value = v, !.ttlAt = t + DB_TTL_SEC, !.tUpsert = t]

\* lines 37-41 once fetchFromCoinGecko has resolved with v: ttlAt is computed
\* and the upsert is issued
Fetched(c, v, t) ==
    [c EXCEPT !.pc = "upsert", !.value = v, !.ttlAt = t + DB_TTL_SEC * 1000, !.tUpsert = t]

\* mutant: a failed second attempt is retried as well
CaughtAgain(c, e) ==
    IF Transient(StatusOf(e))
    THEN [c EXCEPT !.pc = "sleep", !.firstErr = IF c.attempts = 1 THEN e ELSE c.firstErr]
    ELSE [c EXCEPT !.pc = "failed", !.err = e,
                   !.firstErr = IF c.attempts = 1 THEN e ELSE c.firstErr]

\* fetchFromCoinGecko's catch (lines 93-99) and, at the second attempt, the
\* rejection of `return await doFetch()`
Caught(c, e) ==
    IF c.attempts = 1 /\ Transient(StatusOf(e))
    THEN [c EXCEPT !.pc = "sleep", !.firstErr = e]
    ELSE [c EXCEPT !.pc = "failed", !.err = e,
                   !.firstErr = IF c.attempts = 1 THEN e ELSE c.firstErr]

\* doFetch() resolves with a snapshot
FetchOk(p, v) ==
    /\ p \in Procs /\ v \in Snapshots
    /\ mk[p].pc = "fetch"
    /\ mk' = [mk EXCEPT ![p] = Fetched(mk[p], v, now)]
    /\ UNCHANGED <<now, limiterVars, surfaceVars, cacheVars, storeVars, resolverVars, db, ft, born>>

\* doFetch() rejects: one retry after a 429 or 5xx of the first attempt
FetchFail(p, status) ==
    /\ p \in Procs /\ status \in FailStatus
    /\ mk[p].pc = "fetch"
    /\ mk' = [mk EXCEPT ![p] = Caught(mk[p], HttpError(status))]
    /\ UNCHANGED <<now, limiterVars, surfaceVars, cacheVars, storeVars, resolverVars, db, ft, born>>

\* sleep(400) is over: the second doFetch() starts
Retry(p) ==
    /\ p \in Procs
    /\ mk[p].pc = "sleep"
    /\ mk' = [mk EXCEPT ![p].pc = "fetch", ![p].attempts = mk[p].attempts + 1]
    /\ UNCHANGED <<now, limiterVars, surfaceVars, cacheVars, storeVars, resolverVars, db, ft, born>>

\* prisma.priceCache.upsert commits
Upsert(p) ==
    /\ p \in Procs
    /\ mk[p].pc = "upsert"
    /\ db' = DbUpsert(db, mk[p].key, mk[p].value, mk[p].ttlAt)
    /\ mk' = [mk EXCEPT ![p].pc = "memset", ![p].order = Append(mk[p].order, "db")]
    /\ UNCHANGED <<now, limiterVars, surfaceVars, cacheVars, storeVars, resolverVars, ft, born>>

\* prisma.priceCache.upsert rejects
UpsertFail(p) ==
    /\ p \in Procs
    /\ mk[p].pc = "upsert"
    /\ mk' = [mk EXCEPT ![p].pc = "failed", ![p].err = DbError]
    /\ UNCHANGED <<now, limiterVars, surfaceVars, cacheVars, storeVars, resolverVars, db, ft, born>>

\* sharedCache.set(key, value, MEM_TTL_MS); return value
MemSet(p) ==
    /\ p \in Procs
    /\ mk[p].pc = "memset"
    /\ cache' = CacheSet(cache, mk[p].key, mk[p].value, MEM_TTL_MS, now)
    /\ born' = PutBorn(mk[p].key, mk[p].tUpsert)
    /\ mk' = [mk EXCEPT ![p].pc = "done", ![p].ret = mk[p].value,
                        ![p].via = "fetch", ![p].age = now - mk[p].tUpsert,
                        ![p].order = Append(mk[p].order, "mem"),
                        ![p].rowHeld = /\ mk[p].key \in DOMAIN db
                                       /\ db[mk[p].key] = [payload |-> mk[p].value,
                                                            ttlAt |-> mk[p].tUpsert + 45000],
                        ![p].memHeld = cache'[mk[p].key] = [value |-> mk[p].value,
                                                            expires |-> now + 45000]]
    /\ UNCHANGED <<now, limiterVars, surfaceVars, written, lastGet, calls, storeVars, resolverVars, db, ft>>

MarketTick(d) ==
    /\ d \in MarketSteps
    /\ ClockAdvance(d) <= MaxMarketClock
    /\ (ClockAdvance(d) - StartTime) % 45000 \in {0, 1}
    /\ now' = ClockAdvance(d)
    /\ UNCHANGED <<limiterVars, surfaceVars, cacheVars, storeVars, resolverVars, marketVars>>

NextMarket ==
    \/ \E p \in Procs, symbol \in SymbolInputs : MarketBegin(p, symbol)
    \/ \E p \in Procs : DbRead(p)
    \/ \E p \in Procs : DbReadFail(p)
    \/ \E p \in Procs, v \in Snapshots : FetchOk(p, v)
    \/ \E p \in Procs, status \in MarketFailStatus : FetchFail(p, status)
    \/ \E p \in Procs : Retry(p)
    \/ \E p \in Procs : Upsert(p)
    \/ \E p \in Procs : UpsertFail(p)
    \/ \E p \in Procs : MemSet(p)
    \/ \E d \in MarketSteps : MarketTick(d)

(***************************************************************************)
(* services/coingecko.ts: doFetch, request by request.  A snapshot is      *)
(* known by the id of the markets row it is built from.                    *)
(***************************************************************************)
FetchProcs == {1}
TOP_IDS == 5

\* /search answers: coins with an id and a symbol (<< >>: no symbol)
Coin(id, symbol) == [id |-> id, symbol |-> symbol]
ExactCoins ==
    <<Coin("e1", <<"B", "T", "C">>), Coin("e2", Btc), Coin("e3", <<"B", "t", "c">>),
      Coin("e4", Btc), Coin("e5", Btc), Coin("e6", Btc)>>
FuzzyCoins ==
    <<Coin("f1", <<"b", "t", "c", "x">>), Coin("f2", << >>), Coin("f3", <<"w", "b", "t", "c">>),
      Coin("f4", <<"b", "t">>), Coin("f5", Eth), Coin("f6", <<" ", "b", "t", "c">>)>>
CoinAnswers ==
    {<< >>, ExactCoins, FuzzyCoins, SubSeq(FuzzyCoins, 1, 2),
     SubSeq(FuzzyCoins, 1, 2) \o SubSeq(ExactCoins, 1, 1) \o SubSeq(FuzzyCoins, 3, 3)
        \o SubSeq(ExactCoins, 2, 2),
     FuzzyCoins \o ExactCoins}

\* /coins/markets answers: rows with an id and a market_cap_rank (-1: none);
\* NullRow is a null element of the array
NullRow == [id |-> "", rank |-> -1]
MarketRows == {[id |-> "snapA", rank |-> 2], [id |-> "snapB", rank |-> 1],
               [id |-> "snapC", rank |-> -1], NullRow}
MaxRows == 2
MarketAnswers == UNION {[1..n -> MarketRows] : n \in 0..MaxRows}

IdleFetch ==
    [stage |-> "idle", coins |-> << >>, ids |-> << >>, rows |-> << >>,
     nSearch |-> 0, nMarkets |-> 0, nFull |-> 0]

\* coins.filter(c => c?.symbol?.toLowerCase() === sym), else all coins
ExactMatch(sym, c) == c.symbol # << >> /\ ToLowerCase(c.symbol) = sym
Candidates(coins, sym) ==
    LET exact == SelectSeq(coins, LAMBDA c : ExactMatch(sym, c))
    IN  IF exact # << >> THEN exact ELSE coins

\* mutant: the ids of all candidates are sent
AllIds(candidates) == [i \in 1..Len(candidates) |-> candidates[i].id]

\* candidates.slice(0, 5).map(c => c.id)
TopIds(candidates) ==
    LET top == Slice(candidates, TOP_IDS)
    IN  [i \in 1..Len(top) |-> top[i].id]

MarketRankOf(r) == IF r.rank = -1 THEN NoRankValue ELSE r.rank
MarketRankCmp(a, b) == MarketRankOf(a) - MarketRankOf(b)

\* mutant: the first row is taken
PickFirst(rows) == SelectSeq(rows, LAMBDA r : r # NullRow)

\* pickBestByMarketCap: filter(Boolean), sort by rank; the result's first
\* element is the pick, an empty result is undefined
PickBestByMarketCap(rows) ==
    StableSort(SelectSeq(rows, LAMBDA r : r # NullRow), MarketRankCmp)

\* the CoinInfo built from the best row
Snapshot(best) == best.id

\* doFetch() is called: the search request goes out
DoFetch(p) ==
    /\ p \in Procs
    /\ mk[p].pc = "fetch" /\ ft[p].stage = "idle"
    /\ ft' = [ft EXCEPT ![p] = [IdleFetch EXCEPT !.stage = "search", !.nSearch = 1]]
    /\ UNCHANGED <<now, limiterVars, surfaceVars, cacheVars, storeVars, resolverVars, mk, db, born>>

\* the search request answers: no candidate throws, else the markets request
FetchSearchOk(p, coins) ==
    /\ p \in Procs /\ coins \in CoinAnswers
    /\ mk[p].pc = "fetch" /\ ft[p].stage = "search"
    /\ LET candidates == Candidates(coins, mk[p].key[2])
       IN  IF candidates = << >>
           THEN /\ mk' = [mk EXCEPT ![p] = Caught(mk[p], NotFound)]
                /\ ft' = [ft EXCEPT ![p].stage = "idle", ![p].coins = coins]
           ELSE /\ ft' = [ft EXCEPT ![p].stage = "markets", ![p].coins = coins,
                                    ![p].ids = TopIds(candidates), ![p].nMarkets = 1]
                /\ UNCHANGED mk
    /\ UNCHANGED <<now, limiterVars, surfaceVars, cacheVars, storeVars, resolverVars, db, born>>

\* the markets request answers: no best row throws, else the profile request
FetchMarketsOk(p, rows) ==
    /\ p \in Procs /\ rows \in MarketAnswers
    /\ mk[p].pc = "fetch" /\ ft[p].stage = "markets"
    /\ IF PickBestByMarketCap(rows) = << >>
       THEN /\ mk' = [mk EXCEPT ![p] = Caught(mk[p], NoMarketData)]
            /\ ft' = [ft EXCEPT ![p].stage = "idle", ![p].rows = rows]
       ELSE /\ ft' = [ft EXCEPT ![p].stage = "full", ![p].rows = rows, ![p].nFull = 1]
            /\ UNCHANGED mk
    /\ UNCHANGED <<now, limiterVars, surfaceVars, cacheVars, storeVars, resolverVars, db, born>>

\* the profile request answers: doFetch resolves with the snapshot
FetchFullOk(p) ==
    /\ p \in Procs
    /\ mk[p].pc = "fetch" /\ ft[p].stage = "full"
    /\ mk' = [mk EXCEPT ![p] = Fetched(mk[p], Snapshot(PickBestByMarketCap(ft[p].rows)[1]), now)]
    /\ ft' = [ft EXCEPT ![p].stage = "idle"]
    /\ UNCHANGED <<now, limiterVars, surfaceVars, cacheVars, storeVars, resolverVars, db, born>>

\* the request in flight fails with an HTTP status or without a response
FetchRequestFail(p, status) ==
    /\ p \in Procs /\ status \in FailStatus
    /\ mk[p].pc = "fetch" /\ ft[p].stage \in {"search", "markets", "full"}
    /\ mk' = [mk EXCEPT ![p] = Caught(mk[p], HttpError(status))]
    /\ ft' = [ft EXCEPT ![p].stage = "idle"]
    /\ UNCHANGED <<now, limiterVars, surfaceVars, cacheVars, storeVars, resolverVars, db, born>>

NextFetch ==
    \/ \E p \in FetchProcs, symbol \in SymbolInputs : MarketBegin(p, symbol)
    \/ \E p \in FetchProcs : DbRead(p)
    \/ \E p \in FetchProcs : DbReadFail(p)
    \/ \E p \in FetchProcs : DoFetch(p)
    \/ \E p \in FetchProcs, coins \in CoinAnswers : FetchSearchOk(p, coins)
    \/ \E p \in FetchProcs, rows \in MarketAnswers : FetchMarketsOk(p, rows)
    \/ \E p \in FetchProcs : FetchFullOk(p)
    \/ \E p \in FetchProcs, status \in FailStatus : FetchRequestFail(p, status)
    \/ \E p \in FetchProcs : Retry(p)
    \/ \E p \in FetchProcs : Upsert(p)
    \/ \E p \in FetchProcs : UpsertFail(p)
    \/ \E p \in FetchProcs : MemSet(p)
    \/ \E d \in MarketSteps : MarketTick(d)

(***************************************************************************)
(* services/dexscreener.ts: the three operations, one caller               *)
(***************************************************************************)
MaxDexCalls == 2        \* calls of the DEX data client in one run
PairM == [base |-> << >>, quote |-> <<"U", "S", "D", "C">>, liq |-> -1, vol |-> -1,
          pairAddress |-> "0xpm", chainId |-> "bsc"]
DexPairs == {PairA, PairB, PairS, PairM}
DexLists == UNION {[1..n -> DexPairs] : n \in 0..MaxPairs}
DexQueries == {<<"p", "e">>, <<"P", "e">>}
DexLimits == {1, 2}
DexStatus == {429, 500, 404, 0}     \* HTTP status of a failed request, 0: no response

ContractKey(contracts) == <<"dex:contract", ToLowerCase(contracts)>>
CONTRACT_TTL == 45000
NoPairsFound == <<"nopairs", 0>>    \* Error("No pairs found for that contract on Dexscreener")

IdleDex ==
    [pc |-> "idle", op |-> "none", limit |-> 0, key |-> << >>, ret |-> << >>, err |-> NoError,
     nReq |-> 0, hit |-> FALSE, raw |-> << >>, answered |-> FALSE, status |-> 0,
     src |-> << >>, n |-> 0, held |-> << >>, after |-> << >>]

\* what the producer of a key was given and asked for when it stored its result
PutSrc(src, k, raw, limit) ==
    [j \in DOMAIN src \cup {k} |-> IF j = k THEN [raw |-> raw, limit |-> limit] ELSE src[j]]

\* sharedCache.with up to the producer: a stored value that is not undefined
\* is returned, otherwise the producer issues its request
DexEnter(op, k, limit) ==
    /\ dx.pc \in {"idle", "done", "failed"}
    /\ dx.n < MaxDexCalls
    /\ LET l == CacheLookup(cache, k, now)
           \* held: the store as the producer found it; after: the key of the
           \* call before this one when that call failed
           c == [IdleDex EXCEPT !.op = op, !.limit = limit, !.key = k,
                                !.src = dx.src, !.n = dx.n + 1, !.held = l.store,
                                !.after = IF dx.pc = "failed" THEN dx.key ELSE << >>]
           found == l.hit /\ (op # "pair" \/ cache[k].value # UndefinedPair)
       IN  /\ dx' = IF found THEN [c EXCEPT !.pc = "done", !.ret = cache[k].value, !.hit = TRUE,
                                           !.held = << >>]
                    ELSE [c EXCEPT !.pc = "wait", !.nReq = 1]
           /\ cache' = l.store

DexBegin(op, k, limit) ==
    /\ DexEnter(op, k, limit)
    /\ UNCHANGED <<now, limiterVars, written, lastGet, calls, storeVars, resolverVars,
                   marketVars, sv, ai, pv>>

SearchDexPairs(query, limit) == DexBegin("search", SearchKey(query, limit), limit)
GetPairByChainAndAddress(chainId, pairAddress) ==
    DexBegin("pair", PairKey(chainId, pairAddress), 0)
GetDexByContract(contracts) == DexBegin("contract", ContractKey(contracts), 0)

ContractCmp(a, b) == LiqOf(b) - LiqOf(a)
\* mutant: an empty answer is returned like any other
ByContractUnchecked(raw) == [ok |-> TRUE, value |-> StableSort(raw, ContractCmp)]

\* the producer of getDexByContract once the upstream has answered
ByContract(raw) ==
    IF raw = << >> THEN [ok |-> FALSE, value |-> << >>]
    ELSE [ok |-> TRUE, value |-> StableSort(raw, ContractCmp)]

\* the request is answered: the producer builds its result, with() stores it
DexSettled(raw) ==
    /\ dx.pc = "wait"
    /\ LET c == [dx EXCEPT !.raw = raw, !.answered = TRUE]
           stored(v, ttl) ==
               /\ dx' = [c EXCEPT !.pc = "done", !.ret = v, !.held = << >>,
                                  !.src = PutSrc(dx.src, dx.key, raw, dx.limit)]
               /\ cache' = CacheSet(cache, dx.key, v, ttl, now)
       IN  CASE dx.op = "search" -> stored(SearchResult(raw, dx.limit), SEARCH_TTL)
             [] dx.op = "pair" ->
                    stored(IF raw = << >> THEN UndefinedPair ELSE raw[1], PAIR_TTL)
             [] dx.op = "contract" ->
                    IF ByContract(raw).ok THEN stored(ByContract(raw).value, CONTRACT_TTL)
                    ELSE /\ dx' = [c EXCEPT !.pc = "failed", !.err = NoPairsFound]
                         /\ UNCHANGED cache
    /\ UNCHANGED <<now, limiterVars, written, lastGet, calls, storeVars, resolverVars,
                   marketVars, sv, ai, pv>>

\* mutant: a failed request is remembered as an empty answer
DexRejectedCached(status) ==
    /\ dx.pc = "wait"
    /\ dx' = [dx EXCEPT !.pc = "failed", !.err = HttpError(status), !.status = status]
    /\ cache' = CacheSet(cache, dx.key, IF dx.op = "pair" THEN UndefinedPair ELSE << >>,
                         CONTRACT_TTL, now)
    /\ UNCHANGED <<now, limiterVars, written, lastGet, calls, storeVars, resolverVars,
                   marketVars, sv, ai, pv>>

\* the request fails: nothing in dexscreener.ts or http.ts catches it
DexRejected(status) ==
    /\ dx.pc = "wait"
    /\ dx' = [dx EXCEPT !.pc = "failed", !.err = HttpError(status), !.status = status]
    /\ UNCHANGED <<now, limiterVars, cacheVars, storeVars, resolverVars, marketVars, sv, ai, pv>>

NextDex ==
    \/ \E query \in DexQueries, limit \in DexLimits : SearchDexPairs(query, limit)
    \/ GetPairByChainAndAddress(PairA.chainId, PairA.pairAddress)
    \/ \E contracts \in {WbtcAddress, ToLowerCase(WbtcAddress)} : GetDexByContract(contracts)
    \/ \E raw \in DexLists : DexSettled(raw)
    \/ \E status \in DexStatus : DexRejected(status)
    \/ ResolverTick

(***************************************************************************)
(* bot/index.ts and server.ts: the inbound user actions                    *)
(***************************************************************************)
MaxActions == 3         \* inbound user actions in one run
SurfaceGaps == {450, 6000}
SurfaceAddresses == {WbtcAddress, LongAddress, SolanaMint, << >>}
CommandSymbols == {Btc, <<"$", "$">>, << >>}      \* the handler trims the argument
RouteSymbols == {Btc} \cup OddSymbols              \* a route parameter is not empty

IdleSurface ==
    [n |-> 0, kind |-> "none", entry |-> "none", input |-> << >>, consulted |-> 0,
     admitted |-> FALSE, reply |-> "none", client |-> "none", p |-> 1]

\* a chat command, from bot.use(rateLimiter) to the first client call of its
\* handler; arg is the text after the command as the handler cuts it out
Command(c, d, cmd, arg) ==
    /\ sv.n < MaxActions
    /\ c \in Chats
    /\ Admit(c, d)
    /\ LET a == [IdleSurface EXCEPT !.n = sv.n + 1, !.kind = "chat", !.entry = cmd,
                                    !.input = arg, !.consulted = 1,
                                    !.admitted = (rl'.res = "next")]
       IN  IF rl'.res # "next"
           THEN sv' = [a EXCEPT !.reply = rl'.res] /\ UNCHANGED <<dx, cache, mk, born, pv>>
           ELSE IF arg = << >>
           THEN sv' = [a EXCEPT !.reply = "usage"] /\ UNCHANGED <<dx, cache, mk, born, pv>>
           ELSE IF cmd = "analyze"
           THEN IF ~IsAddress(arg)
                THEN sv' = [a EXCEPT !.reply = "invalid"] /\ UNCHANGED <<dx, cache, mk, born, pv>>
                ELSE /\ sv' = [a EXCEPT !.reply = "called", !.client = "dex"]
                     /\ DexEnter("contract", ContractKey(arg), 0)
                     /\ UNCHANGED mk
           ELSE /\ sv' = [a EXCEPT !.reply = "called", !.client = "market"]
                /\ MarketEnter(1, arg)
                /\ UNCHANGED dx
    /\ UNCHANGED <<audit, written, lastGet, calls, storeVars, resolverVars, db, ft, ai, born, pv>>

\* server.ts GET /token/:address up to getDexByContract
HttpToken(address) ==
    /\ sv.n < MaxActions
    /\ LET a == [IdleSurface EXCEPT !.n = sv.n + 1, !.kind = "http", !.entry = "token",
                                    !.input = address]
       IN  IF address = << >> \/ ~IsAddress(address)
           THEN sv' = [a EXCEPT !.reply = "invalid"] /\ UNCHANGED <<dx, cache, pv>>
           ELSE /\ sv' = [a EXCEPT !.reply = "called", !.client = "dex"]
                /\ DexEnter("contract", ContractKey(address), 0)
    /\ UNCHANGED <<now, limiterVars, written, lastGet, calls, storeVars, resolverVars,
                   marketVars, ai, pv>>

\* server.ts GET /price/:symbol up to the await inside getCoinGeckoBySymbol
HttpPrice(symbol) ==
    /\ sv.n < MaxActions
    /\ sv' = [IdleSurface EXCEPT !.n = sv.n + 1, !.kind = "http", !.entry = "price",
                                 !.input = symbol, !.reply = "called", !.client = "market",
                                 !.p = 2]
    /\ MarketEnter(2, symbol)
    /\ UNCHANGED <<now, limiterVars, written, lastGet, calls, storeVars, resolverVars,
                   db, ft, dx, ai, born, pv>>

NextSurface ==
    \/ \E c \in Chats, d \in SurfaceGaps, arg \in SurfaceAddresses : Command(c, d, "analyze", arg)
    \/ \E c \in Chats, d \in SurfaceGaps, arg \in CommandSymbols : Command(c, d, "price", arg)
    \/ \E address \in SurfaceAddresses : HttpToken(address)
    \/ \E symbol \in RouteSymbols : HttpPrice(symbol)
    \/ \E p \in Procs : DbRead(p)

(***************************************************************************)
(* services/ai: aiSafetyInsight                                            *)
(***************************************************************************)
MaxInsights == 1        \* calls of aiSafetyInsight in one run
\* metrics of a token; -1 stands for an undefined field
Liquidities == {-1, 5000, 200000}
Volumes == {-1, 20000, 2000000}
Fdvs == {-1, 0, 1000000, 100000000}
Trades == {-1, 60}
OpenAiName == <<"o", "p", "e", "n", "a", "i">>
GeminiName == <<"g", "e", "m", "i", "n", "i">>
\* process.env.AI_PROVIDER: unset or "", a provider in either case, anything else
ForceSettings == {<< >>, OpenAiName, GeminiName, <<"G", "e", "m", "i", "n", "i">>,
                  <<"a", "u", "t", "o">>}
\* what a chain answers: a score (a number or not) and whether it explains
ProviderAnswers == {[score |-> 78, finite |-> TRUE, text |-> TRUE],
                    [score |-> 150, finite |-> TRUE, text |-> TRUE],
                    [score |-> 0, finite |-> FALSE, text |-> FALSE]}

OrZero(v) == IF v = -1 THEN 0 ELSE v
Clamp(v) == IF v < 0 THEN 0 ELSE IF v > 100 THEN 100 ELSE v

\* heuristicScore, called with liquidityUsd ?? 0 and volume24h ?? 0
HeuristicScore(m) ==
    LET liq == OrZero(m.liq)
        vol == OrZero(m.vol)
        s1 == IF liq > 100000 THEN 15 ELSE IF liq < 10000 THEN -15 ELSE 0
        s2 == IF vol > 1000000 THEN 15 ELSE IF vol < 25000 THEN -10 ELSE 0
        \* r = liq / fdv: r > 0.01 and r < 0.001 for fdv > 0
        s3 == IF m.fdv # -1 /\ m.fdv # 0 /\ liq > 0
              THEN IF 100 * liq > m.fdv THEN 10 ELSE IF 1000 * liq < m.fdv THEN -10 ELSE 0
              ELSE 0
        s4 == IF OrZero(m.buys) + OrZero(m.sells) < 100 THEN -5 ELSE 0
    IN  Clamp(50 + s1 + s2 + s3 + s4)

\* runChain once chain.invoke has answered raw
RunChain(raw, provider) ==
    IF raw.finite /\ raw.score >= 0 /\ raw.score <= 100 /\ raw.text
    THEN [score |-> raw.score, provider |-> provider]
    ELSE [score |-> IF raw.finite THEN Clamp(raw.score) ELSE 50, provider |-> provider]

NoInsight == [score |-> -1, provider |-> "none"]
IdleInsight ==
    [pc |-> "idle", metrics |-> [liq |-> -1, vol |-> -1, fdv |-> -1, buys |-> -1, sells |-> -1],
     force |-> << >>, openai |-> FALSE, gemini |-> FALSE, heur |-> 0,
     tried |-> << >>, failed |-> << >>, result |-> NoInsight, n |-> 0]

\* mutant: the outer catch throws what it caught
FallbackRethrows(a) == [a EXCEPT !.pc = "failed"]

\* the outer catch: the heuristic-only result
Fallback(a) == [a EXCEPT !.pc = "done", !.result = [score |-> a.heur, provider |-> "mock"]]

\* tryOpenAI or tryGemini has thrown: the missing key, or the chain rejected
Thrown(a, provider) ==
    LET b == [a EXCEPT !.failed = Append(a.failed, provider)]
    IN  IF b.force \notin {OpenAiName, GeminiName} /\ provider = "openai" /\ b.gemini
        THEN [b EXCEPT !.pc = "gemini", !.tried = Append(b.tried, "gemini")]
        ELSE Fallback(b)

\* tryOpenAI() or tryGemini() up to the await of chain.invoke
Try(a, provider) ==
    LET b == [a EXCEPT !.tried = Append(a.tried, provider)]
    IN  IF (provider = "openai" /\ ~b.openai) \/ (provider = "gemini" /\ ~b.gemini)
        THEN Thrown(b, provider)
        ELSE [b EXCEPT !.pc = provider]

\* aiSafetyInsight(data) up to its first await; openai and gemini tell whether
\* the API key of the provider is set
AiSafetyInsight(m, force, openai, gemini) ==
    /\ ai.pc \in {"idle", "done", "failed"}
    /\ ai.n < MaxInsights
    /\ LET a == [IdleInsight EXCEPT !.n = ai.n + 1, !.metrics = m, !.force = ToLowerCase(force),
                                    !.openai = openai, !.gemini = gemini,
                                    !.heur = HeuristicScore(m)]
       IN  ai' = IF a.force = GeminiName THEN Try(a, "gemini") ELSE Try(a, "openai")
    /\ UNCHANGED <<now, limiterVars, cacheVars, storeVars, resolverVars, marketVars, dx, sv, pv>>

\* chain.invoke answers
ChainOk(raw) ==
    /\ ai.pc \in {"openai", "gemini"}
    /\ ai' = [ai EXCEPT !.pc = "done", !.result = RunChain(raw, ai.pc)]
    /\ UNCHANGED <<now, limiterVars, cacheVars, storeVars, resolverVars, marketVars, dx, sv, pv>>

\* chain.invoke rejects
ChainFail ==
    /\ ai.pc \in {"openai", "gemini"}
    /\ ai' = Thrown(ai, ai.pc)
    /\ UNCHANGED <<now, limiterVars, cacheVars, storeVars, resolverVars, marketVars, dx, sv, pv>>

NextInsight ==
    \/ \E liq \in Liquidities, vol \in Volumes, fdv \in Fdvs, buys \in Trades, sells \in Trades,
          force \in ForceSettings, openai \in BOOLEAN, gemini \in BOOLEAN :
            AiSafetyInsight([liq |-> liq, vol |-> vol, fdv |-> fdv, buys |-> buys,
                             sells |-> sells], force, openai, gemini)
    \/ \E raw \in ProviderAnswers : ChainOk(raw)
    \/ ChainFail


(***************************************************************************)
(* bot/index.ts handleContractAnalysis and server.ts GET /token: the       *)
(* process-wide provider setting around aiSafetyInsight                    *)
(***************************************************************************)
MaxAnalyses == 2        \* requests of one origin in one run
ProviderChats == {1, 2}
HttpOrigin == 0         \* the HTTP token route (it logs chatId 0)
Origins == ProviderChats \cup {HttpOrigin}
AutoName == <<"a", "u", "t", "o">>
Prefs == {AutoName, OpenAiName, GeminiName}     \* /provider <auto|openai|gemini>
Unset == <<"(unset)">>                          \* the variable is not in the environment
UndefinedText == <<"u", "n", "d", "e", "f", "i", "n", "e", "d">>
Defaults == {Unset, GeminiName}                 \* AI_PROVIDER as the process is started

\* process.env.AI_PROVIDER = v: the environment holds strings, undefined is
\* stored as the text "undefined"
EnvAssign(v) == IF v = Unset THEN UndefinedText ELSE v
\* pref === "auto" ? "" : pref
EnvOfPref(pref) == IF pref = AutoName THEN << >> ELSE pref
\* (process.env.AI_PROVIDER || "").toLowerCase()
ForceOf(env) == IF env = Unset THEN << >> ELSE ToLowerCase(env)

IdleRequest == [pc |-> "idle", pref |-> << >>, prev |-> << >>, force |-> << >>, n |-> 0]
IdleProvider == [started |-> FALSE, default |-> Unset, env |-> Unset,
                 req |-> [o \in Origins |-> IdleRequest]]

\* the process starts with AI_PROVIDER unset or set
StartProcess(d) ==
    /\ ~pv.started
    /\ pv' = [pv EXCEPT !.started = TRUE, !.default = d, !.env = d]
    /\ UNCHANGED <<now, limiterVars, cacheVars, storeVars, resolverVars, marketVars, dx, sv, ai>>

\* handleContractAnalysis lines 638-643 for chat c with preference pref: the
\* setting is saved and overwritten, aiSafetyInsight reads it and awaits
AnalysisBegin(c, pref) ==
    /\ pv.started /\ c \in ProviderChats /\ pref \in Prefs
    /\ pv.req[c].pc # "ai" /\ pv.req[c].n < MaxAnalyses
    /\ LET env == EnvAssign(EnvOfPref(pref))
       IN  pv' = [pv EXCEPT !.env = env,
                            !.req[c] = [pc |-> "ai", pref |-> pref, prev |-> pv.env,
                                        force |-> ForceOf(env), n |-> pv.req[c].n + 1]]
    /\ UNCHANGED <<now, limiterVars, cacheVars, storeVars, resolverVars, marketVars, dx, sv, ai>>

\* aiSafetyInsight settles, the finally of lines 655-657 restores the setting
AnalysisEnd(c) ==
    /\ c \in ProviderChats
    /\ pv.req[c].pc = "ai"
    /\ pv' = [pv EXCEPT !.env = EnvAssign(pv.req[c].prev), !.req[c].pc = "done"]
    /\ UNCHANGED <<now, limiterVars, cacheVars, storeVars, resolverVars, marketVars, dx, sv, ai>>

\* server.ts line 102: aiSafetyInsight is called and reads the setting
TokenInsightBegin ==
    /\ pv.started
    /\ pv.req[HttpOrigin].pc # "ai" /\ pv.req[HttpOrigin].n < MaxAnalyses
    /\ pv' = [pv EXCEPT !.req[HttpOrigin] =
                    [pc |-> "ai", pref |-> << >>, prev |-> << >>, force |-> ForceOf(pv.env),
                     n |-> pv.req[HttpOrigin].n + 1]]
    /\ UNCHANGED <<now, limiterVars, cacheVars, storeVars, resolverVars, marketVars, dx, sv, ai>>

\* the insight of the HTTP request settles
TokenInsightEnd ==
    /\ pv.req[HttpOrigin].pc = "ai"
    /\ pv' = [pv EXCEPT !.req[HttpOrigin].pc = "done"]
    /\ UNCHANGED <<now, limiterVars, cacheVars, storeVars, resolverVars, marketVars, dx, sv, ai>>

NextProvider ==
    \/ \E d \in Defaults : StartProcess(d)
    \/ \E c \in ProviderChats, pref \in Prefs : AnalysisBegin(c, pref)
    \/ \E c \in ProviderChats : AnalysisEnd(c)
    \/ TokenInsightBegin
    \/ TokenInsightEnd

NoCall == [chat |-> -1, at |-> 0, res |-> "none", secs |-> 0, fresh |-> FALSE, pre |-> NewBucket(0)]

Init ==
    /\ now = StartTime
    /\ buckets = [c \in {} |-> NewBucket(0)]
    /\ rl = NoCall
    /\ scen = [c \in Chats |-> [n |-> 0, first |-> 0, prev |-> 0]]
    /\ admits = [c \in Chats |-> [lastAt |-> -1, closest |-> FarApart]]
    /\ cache = << >>
    /\ written = [k \in CacheKeys |-> NoWrite]
    /\ lastGet = [key |-> "", ret |-> Undefined, due |-> Undefined,
                  kept |-> FALSE, late |-> FALSE, edge |-> FALSE, stale |-> FALSE]
    /\ calls = [p \in Procs |-> IdleCall]
    /\ store = << >>
    /\ nput = 0
    /\ pend = [n \in 1..MaxPuts |-> NoPut]
    /\ lastTake = [id |-> "", ret |-> Null, first |-> TRUE, firstLatest |-> TRUE, asked |-> FALSE,
                   later |-> TRUE, kept |-> FALSE, clean |-> TRUE, lapsed |-> FALSE]
    /\ returned = [n \in 1..MaxPuts |-> 0]
    /\ rs = IdleResolve
    /\ nres = 0
    /\ mk = [p \in Procs |-> IdleMarket]
    /\ db = << >>
    /\ ft = [p \in Procs |-> IdleFetch]
    /\ dx = IdleDex
    /\ sv = IdleSurface
    /\ ai = IdleInsight
    /\ audit = NoAudit
    /\ born = << >>
    /\ pv = IdleProvider

NextLimiter ==
    \E c \in ChatIds, d \in Gaps : RateLimiter(c, d)

SpecLimiter == Init /\ [][NextLimiter]_vars

NextRefill ==
    \E c \in Chats, d \in Gaps : Audited(c, d)

SpecRefill == Init /\ [][NextRefill]_vars

SpecProvider == Init /\ [][NextProvider]_vars

SpecCache == Init /\ [][NextCache]_vars

SpecWith == Init /\ [][NextWith]_vars

SpecStore == Init /\ [][NextStore]_vars

SpecResolver == Init /\ [][NextResolver]_vars

SpecMarket == Init /\ [][NextMarket]_vars

SpecFetch == Init /\ [][NextFetch]_vars

SpecDex == Init /\ [][NextDex]_vars

SpecSurface == Init /\ [][NextSurface]_vars

SpecInsight == Init /\ [][NextInsight]_vars

\* a request that is awaited settles: with a result, or with a failure by the
\* timeout of http.ts at the latest
SpecResolverLive == Init /\ [][NextResolverLive]_vars /\ WF_vars(Settle)

\* C21: every resolve call that waits for an upstream request eventually ends
\* with a result, with absent or with a propagated failure, and it issues at
\* most one DEX search, at most eight pair-detail requests and at most two
\* aggregator requests.
Waiting(r) == r.pc \in {"search", "pairs", "cgSearch", "cgFull"}
Completed(r) == r.pc \in {"done", "failed"}
ResolveCompletes ==
    /\ [](rs.nSearch <= 1 /\ rs.nPair <= 8 /\ rs.nCg <= 2)
    /\ (Waiting(rs) ~> Completed(rs))

\* a call that ended absent after one search, eight pair details, two
\* aggregator requests, the search answer having been longer than eight
ResolveCompletesWitness ==
    /\ rs.pc = "done" /\ rs.result = NoResult
    /\ rs.nSearch = 1 /\ rs.nPair = 8 /\ rs.nCg = 2 /\ Len(rs.pairs) = 8

(***************************************************************************)
(* Rate limiter properties.                                                *)
(***************************************************************************)
ScenExpected(n) == IF n \in {6, 8} THEN "exhausted" ELSE "next"

\* C3: for a fresh conversation, requests 1..5 spaced at least 900 ms apart
\* inside the first 6000 ms are admitted, a 6th in that window is denied as
\* exhausted, a 7th one refill interval (less than two) after the refill
\* timestamp is admitted, and an 8th 900 ms or more (less than an interval)
\* after it is denied as exhausted.
CapacityScenario ==
    \A c \in Chats :
        (rl.chat = c /\ scen[c].n \in 1..8) => rl.res = ScenExpected(scen[c].n)

CapacityScenarioWitness ==
    rl.chat = 1 /\ scen[1].n = 8 /\ rl.res = "exhausted"

\* C4: two admitted requests of one conversation are at least 900 ms apart,
\* and a request arriving less than 900 ms after the conversation's last
\* admitted request is denied with the slow-down reason.
MinimumGap ==
    \A c \in Chats :
        /\ admits[c].closest >= 900
        /\ (rl.chat = c /\ rl.res # "next" /\ admits[c].lastAt >= 0
                /\ rl.at - admits[c].lastAt < 900) => rl.res = "slow"

MinimumGapWitness ==
    /\ rl.chat = 1 /\ rl.res = "slow"
    /\ rl.at - admits[1].lastAt < 900
    /\ buckets[1].tokens > 0

\* the bucket a request finds, and its tokens after the lazy refill
TokensAfterRefill(pre, t) ==
    IF t > pre.last
    THEN Min(5, pre.tokens + ((t - pre.last) \div 6000))
    ELSE pre.tokens

\* C5: a request is admitted iff, after the lazy refill, 900 ms have passed
\* since the last admitted request and the bucket holds a token; admission
\* takes exactly one token and stamps the request time; when both conditions
\* fail the reason is the slow-down reason.
AdmitIffBoth ==
    \A c \in Chats :
        rl.chat = c =>
            LET gapOk == rl.at - rl.pre.lastHit >= 900
                toks == TokensAfterRefill(rl.pre, rl.at)
            IN  /\ (rl.res = "next") <=> (gapOk /\ toks >= 1)
                /\ rl.res = "next" =>
                        /\ buckets[c].tokens = toks - 1
                        /\ buckets[c].lastHit = rl.at
                /\ rl.res # "next" => buckets[c].tokens = toks
                /\ (~gapOk /\ toks < 1) => rl.res = "slow"

AdmitIffBothWitness ==
    /\ rl.chat = 1 /\ rl.res = "slow"
    /\ rl.at - rl.pre.lastHit < 900
    /\ TokensAfterRefill(rl.pre, rl.at) = 0

\* C6: every bucket holds between 0 and 5 tokens.
TokensInRange ==
    \A c \in DOMAIN buckets : buckets[c].tokens \in 0..5

\* a refill that would have passed the capacity
TokensInRangeWitness ==
    /\ rl.chat = 1 /\ ~rl.fresh
    /\ rl.at > rl.pre.last
    /\ rl.pre.tokens + ((rl.at - rl.pre.last) \div 6000) > 5 + 1
    /\ buckets[1].tokens <= 5

(***************************************************************************)
(* Resolver properties.  The source labels of the code stand for the       *)
(* stages as follows; the code has no label of its own for a query that    *)
(* is an address.                                                          *)
(***************************************************************************)
SourceName(label) ==
    CASE label = "dex" -> "dex-pair"
      [] label = "pair" -> "pair-detail"
      [] label = "coingecko" -> "aggregator-search"
      [] label = "special" -> "static-mapping"
      [] OTHER -> "absent"

\* 0x followed by exactly 40 hex characters, in any letter case
ExactAddress(s) ==
    /\ Len(s) = 42
    /\ s[1] = "0" /\ s[2] = "x"
    /\ \A i \in 3..42 : s[i] \in HexChars

NoRequest(r) == r.nSearch = 0 /\ r.nPair = 0 /\ r.nCg = 0 /\ ~r.cached

StaticMappingWhenAllFail ==
    (/\ rs.pc \in {"done", "failed"}
     /\ ToLowerCase(rs.query) \in DOMAIN SPECIAL_MAP
     /\ rs.nSearch = 1 /\ rs.nOk = 0) =>
        /\ rs.pc = "done"
        /\ rs.result.address = SPECIAL_MAP[ToLowerCase(rs.query)].address
        /\ SourceName(rs.result.source) = "static-mapping"
        /\ rs.result.note = SPECIAL_MAP[ToLowerCase(rs.query)].note

\* the n-th index of a set of indices
NthOf(S, n) == CHOOSE i \in S : Cardinality({k \in S : k <= i}) = n

\* what a resolver call has seen, stage by stage
QueryKey(r) == ToLowerCase(Trim(r.query))
IsDirect(r) == ExactAddress(QueryKey(r))
BaseAt(r) == {i \in 1..Len(r.pairs) : ExactAddress(r.pairs[i].base)}
DetailAt(r) == {j \in 1..Len(r.details) : ~r.details[j].failed /\ ExactAddress(r.details[j].base)}
RecognizedQuotes ==
    {<<"u", "s", "d", "c">>, <<"u", "s", "d", "t">>, <<"w", "e", "t", "h">>,
     <<"w", "b", "n", "b">>, <<"b", "u", "s", "d">>, <<"w", "b", "t", "c">>}
Recognized(p) == ToLowerCase(p.quote) \in RecognizedQuotes

\* C16: when search results expose a valid base address, the result chosen
\* among them has a recognized quote symbol if any of them has, whatever the
\* liquidity, and the largest liquidity among those of its recognition; its
\* base address is returned as a DEX search hit.
BestQuoteFirst ==
    (rs.pc \notin {"idle", "search", "failed"} /\ ~IsDirect(rs) /\ BaseAt(rs) # {}) =>
        /\ rs.pc = "done" /\ rs.result.source = "dex"
        /\ \E i \in BaseAt(rs) :
                /\ rs.result.address = rs.pairs[i].base
                /\ (\E j \in BaseAt(rs) : Recognized(rs.pairs[j])) => Recognized(rs.pairs[i])
                /\ \A j \in BaseAt(rs) :
                        Recognized(rs.pairs[j]) = Recognized(rs.pairs[i]) =>
                            rs.pairs[j].liq <= rs.pairs[i].liq

\* the pair with the recognized quote was chosen over one with more liquidity
BestQuoteFirstWitness ==
    /\ rs.pc = "done" /\ rs.pairs = <<PairB, PairA>>
    /\ rs.result.address = PairA.base

\* C17: when no search result has a valid base address, the results with a
\* chain id and a pair address are visited in the order of the search result,
\* with one pair-detail call and at most one request each; the first detail
\* with a valid base address is returned with source pair-detail and nothing
\* is fetched after it; a detail call that fails is skipped.
DetailLoop ==
    (rs.pc \in {"pairs", "cgSearch", "cgFull", "done"} /\ ~IsDirect(rs) /\ BaseAt(rs) = {}) =>
        LET C == {i \in 1..Len(rs.pairs) :
                    rs.pairs[i].pairAddress # "" /\ rs.pairs[i].chainId # ""}
            n == Len(rs.visited)
        IN  /\ Len(rs.details) = n /\ n <= Cardinality(C)
            /\ \A j \in 1..n : rs.visited[j] = NthOf(C, j)
            /\ rs.nPair <= n + (IF rs.pc = "pairs" THEN 1 ELSE 0)
            /\ rs.pc = "pairs" => n < Cardinality(C) /\ rs.i = NthOf(C, n + 1)
            /\ \A j \in DetailAt(rs) : j = n
            /\ DetailAt(rs) # {} <=> (rs.pc = "done" /\ rs.result.source = "pair")
            /\ DetailAt(rs) # {} => rs.result.address = rs.details[n].base /\ rs.nCg = 0
            /\ (DetailAt(rs) = {} /\ rs.pc # "pairs") => n = Cardinality(C)

\* the first detail call failed and the second gave the address
DetailLoopWitness ==
    /\ rs.pc = "done" /\ rs.result.source = "pair"
    /\ Len(rs.details) = 2 /\ rs.details[1].failed

ProducedBy(r) ==
    IF IsDirect(r) THEN "direct"
    ELSE IF BaseAt(r) # {} THEN "dex-pair"
    ELSE IF DetailAt(r) # {} THEN "pair-detail"
    ELSE IF r.cg = "found" THEN "aggregator-search"
    ELSE IF QueryKey(r) \in DOMAIN SPECIAL_MAP THEN "static-mapping"
    ELSE "absent"

StagesInOrder(r) ==
    /\ (r.nSearch > 0 \/ r.cached) => ~IsDirect(r)
    /\ (r.nPair > 0 \/ r.visited # << >>) => ~IsDirect(r) /\ BaseAt(r) = {}
    /\ r.nCg > 0 => ~IsDirect(r) /\ BaseAt(r) = {} /\ DetailAt(r) = {}
    /\ r.result.source = "special" => r.cg \in {"empty", "failed", "noevm"}

TiersInOrder ==
    \A p \in Procs :
        /\ mk[p].memFound =>
                /\ mk[p].pc = "done" /\ mk[p].ret = mk[p].memValue
                /\ mk[p].dbReads = 0 /\ mk[p].attempts = 0
        /\ mk[p].dbReads > 0 => ~mk[p].memFound
        /\ mk[p].rowFuture =>
                /\ mk[p].pc = "done" /\ mk[p].ret = mk[p].rowPayload
                /\ mk[p].attempts = 0 /\ mk[p].backfilled
        /\ mk[p].attempts > 0 =>
                /\ ~mk[p].memFound /\ mk[p].dbReads = 1 /\ ~mk[p].rowFuture

\* a call served from the durable row while another call is served from memory
TiersInOrderWitness ==
    \E p, o \in Procs :
        /\ mk[p].pc = "done" /\ mk[p].rowFuture /\ mk[p].backfilled
        /\ mk[o].pc = "done" /\ mk[o].memFound /\ mk[o].key = mk[p].key

Retryable(e) == e[1] = "http" /\ (e[2] = 429 \/ e[2] >= 500)

\* C11: a call makes at most two fetch attempts; the second is made exactly
\* when the first failed with status 429 or 500 and more; a successful second
\* attempt is returned without an error reaching the caller unless the durable
\* store fails; any other first failure, and a failure of the second attempt,
\* is what the caller gets, and no third attempt follows.
RetryOnce ==
    \A p \in Procs :
        LET c == mk[p]
        IN  /\ c.attempts <= 2
            /\ (c.attempts = 2 \/ c.pc = "sleep") <=> Retryable(c.firstErr)
            /\ (c.attempts = 2 /\ c.value # Undefined) =>
                    /\ c.pc \in {"upsert", "memset", "done", "failed"}
                    /\ c.pc = "done" => c.ret = c.value /\ c.err = NoError
                    /\ c.pc = "failed" => c.err = DbError
            /\ (c.firstErr # NoError /\ ~Retryable(c.firstErr)) =>
                    c.pc = "failed" /\ c.err = c.firstErr /\ c.attempts = 1
            /\ (c.attempts = 2 /\ c.pc = "failed" /\ c.value = Undefined) =>
                    c.err[1] \in {"http", "network", "notfound", "nomarket"}

\* a call returned the result of its second attempt after a 429
RetryOnceWitness ==
    \E p \in Procs :
        /\ mk[p].pc = "done" /\ mk[p].attempts = 2 /\ mk[p].ret # Undefined
        /\ mk[p].firstErr = <<"http", 429>>

\* C12: when a call with no concurrent call for the symbol returns a fetched
\* snapshot, the durable row and the in-process entry of the trimmed
\* lower-cased symbol hold it, each expiring 45 s after its write was issued,
\* and the durable write came first, then the in-process write and the return.
WriteThrough ==
    \A p \in FetchProcs :
        LET c == mk[p]
        IN  (c.pc = "done" /\ c.attempts > 0) =>
                /\ c.key = <<"cg:symbol", Btc>>
                /\ c.ret = c.value /\ c.ret # Undefined
                /\ c.rowHeld /\ c.memHeld
                /\ c.order = <<"db", "mem">>

\* a fetched snapshot was returned, the durable write having taken time
WriteThroughWitness ==
    \E p \in FetchProcs :
        /\ mk[p].pc = "done" /\ mk[p].attempts > 0
        /\ mk[p].tUpsert < now

\* a candidate whose symbol equals the requested one, letter case aside
IsExact(c, sym) == c.symbol # << >> /\ ToLowerCase(c.symbol) = ToLowerCase(sym)
ExactAt(coins, sym) == {i \in 1..Len(coins) : IsExact(coins[i], sym)}

\* C13: the markets request names only exact matches when the search returned
\* one, the full candidate list otherwise, and in both cases the first five
\* candidates at most.
MarketsIds ==
    \A p \in FetchProcs :
        ft[p].nMarkets = 1 =>
            LET coins == ft[p].coins
                ids == ft[p].ids
                E == ExactAt(coins, mk[p].key[2])
            IN  /\ Len(ids) <= 5
                /\ E # {} =>
                        /\ Len(ids) = Min(5, Cardinality(E))
                        /\ \A j \in 1..Len(ids) : ids[j] = coins[NthOf(E, j)].id
                /\ E = {} =>
                        /\ Len(ids) = Min(5, Len(coins))
                        /\ \A j \in 1..Len(ids) : ids[j] = coins[j].id

\* a search answer with six fuzzy matches before six exact ones was cut to
\* five exact ids
MarketsIdsWitness ==
    \E p \in FetchProcs :
        /\ ft[p].nMarkets = 1 /\ ft[p].coins = FuzzyCoins \o ExactCoins
        /\ ft[p].ids = <<"e1", "e2", "e3", "e4", "e5">>

\* C14: the snapshot of a live fetch is built from the markets row with the
\* smallest market-cap rank among the rows returned, and from a row without a
\* rank only when no row has one.
SmallestRank ==
    \A p \in FetchProcs :
        (mk[p].attempts > 0 /\ mk[p].value # Undefined) =>
            LET rows == ft[p].rows
                R == {i \in 1..Len(rows) : rows[i] # NullRow}
                ranked == {i \in R : rows[i].rank # -1}
            IN  \E i \in R :
                    /\ mk[p].value = rows[i].id
                    /\ ranked # {} =>
                            /\ i \in ranked
                            /\ \A j \in ranked : rows[i].rank <= rows[j].rank

\* the second row was taken for its rank, ahead of a row without rank
SmallestRankWitness ==
    \E p \in FetchProcs :
        /\ mk[p].pc = "done" /\ mk[p].ret = "snapB"
        /\ ft[p].rows = <<[id |-> "snapC", rank |-> -1], [id |-> "snapB", rank |-> 1]>>

\* C15: a live fetch that ends in failure (no candidate, a failure that is
\* not transient, a second failure) makes the call fail with that error and
\* writes neither the in-process entry nor the durable row; a search with no
\* candidate is followed by no markets or profile request and by no retry.
FailedFetchWritesNothing ==
    [][\A p \in FetchProcs :
        /\ (mk[p].pc \in {"db", "fetch", "sleep"} /\ mk'[p].pc \in {"fetch", "sleep", "failed"}) =>
                cache' = cache /\ db' = db
        /\ (mk[p].pc = "fetch" /\ mk'[p].pc = "failed") =>
                /\ mk'[p].err[1] \in {"notfound", "nomarket", "http", "network"}
                /\ Retryable(mk'[p].err) => mk'[p].attempts = 2
                /\ mk'[p].ret = Undefined
        /\ (mk[p].pc = "fetch" /\ ft[p].stage = "search" /\ ft'[p].stage = "idle"
                /\ mk'[p].firstErr[1] \notin {"http", "network"}
                /\ mk'[p].err[1] \notin {"http", "network"}) =>
                /\ mk'[p].pc = "failed" /\ mk'[p].err = NotFound
                /\ ft'[p].nMarkets = 0 /\ ft'[p].nFull = 0 /\ ft'[p].stage = "idle"
      ]_vars

\* a call failed for want of a candidate while an earlier row exists
FailedFetchWitness ==
    \E p \in FetchProcs :
        /\ mk[p].pc = "failed" /\ mk[p].err = NotFound
        /\ mk[p].key \in DOMAIN db

(***************************************************************************)
(* TTL cache properties.                                                   *)
(***************************************************************************)
\* C7: after set(k, v, t) at time s, with no later set or clear of k, a read
\* up to and including s + t returns v, a read after s + t returns undefined
\* and removes the entry; no read returns a value stored with an expiry
\* earlier than the read.
TtlRead ==
    /\ lastGet.ret = lastGet.due
    /\ lastGet.late => ~lastGet.kept
    /\ ~lastGet.stale

\* a read at the very instant s + t that returned the value
TtlReadWitness ==
    /\ lastGet.key \in CacheKeys
    /\ lastGet.edge
    /\ lastGet.ret # Undefined
    /\ lastGet.kept

\* C8: whenever the key holds an unexpired entry when with() is called, the
\* stored result is returned and the producer is not invoked, whatever the
\* stored result is.
WithHitSkipsProducer ==
    \A p \in Procs :
        calls[p].found =>
            /\ calls[p].pc = "done"
            /\ calls[p].ret = calls[p].foundValue
            /\ ~calls[p].ran

\* two calls of with() for one key that have both returned, each having
\* awaited its producer while the other did; p stored last
BothMissed(p, q) ==
    /\ p # q /\ calls[p].op = calls[q].op
    /\ calls[p].pc = "done" /\ calls[q].pc = "done"
    /\ calls[p].conc /\ calls[q].conc
    /\ calls[p].last

\* C34: when two with() calls for one absent key overlap and both return,
\* both producers have run, each call has returned what its own producer
\* made, and the cache holds the value of the call that stored last, with
\* the expiry counted from that store.
ConcurrentMiss ==
    \A p, q \in Procs :
        BothMissed(p, q) =>
            LET k == DexKey(calls[p].op)
            IN  /\ calls[p].ran /\ calls[q].ran
                /\ calls[p].ret = calls[p].made /\ calls[q].ret = calls[q].made
                /\ calls[q].fin <= calls[p].fin
                /\ k \in DOMAIN cache
                /\ cache[k].value = calls[p].made
                /\ cache[k].expires = calls[p].fin + DexTtl(calls[p].op)

\* the two producers made different values and finished at different times
ConcurrentMissWitness ==
    \E p, q \in Procs :
        /\ BothMissed(p, q)
        /\ calls[p].made # calls[q].made
        /\ calls[q].fin < calls[p].fin
        /\ cache[DexKey(calls[p].op)].value = calls[p].made

(***************************************************************************)
(* Callback store properties.                                              *)
(***************************************************************************)
\* C9 as stated: the first take(id) after put stored p under id, made before
\* the TTL elapses, returns p and deletes the entry; a take(id) with no put of
\* id since the previous take(id) returns null; no payload is returned twice.
OneShotTakeAnyPut ==
    /\ lastTake.first
    /\ lastTake.asked => ~lastTake.kept
    /\ lastTake.later
    /\ \A n \in 1..MaxPuts : returned[n] <= 1

\* C9: the first take(id) after put stored p under id, made before the TTL
\* elapses, returns p and deletes the entry provided no later put returned the
\* same id in between; a take(id) with no put of id since the previous
\* take(id) returns null; no payload is returned twice.
OneShotTake ==
    /\ lastTake.firstLatest
    /\ lastTake.asked => ~lastTake.kept
    /\ lastTake.later
    /\ \A n \in 1..MaxPuts : returned[n] <= 1

\* a payload returned by its first take, and the entry gone
OneShotTakeWitness ==
    /\ lastTake.asked
    /\ lastTake.ret # Null
    /\ lastTake.ret = LatestPut(lastTake.id)
    /\ returned[lastTake.ret] = 1
    /\ ~lastTake.kept


(***************************************************************************)
(* Market data client: age and agreement of the two caches.                *)
(***************************************************************************)
\* C38 as stated: every snapshot a call has returned came from a live fetch
\* that completed at most 45 seconds before the return.
ServedWithinTtl ==
    \A p \in Procs :
        (mk[p].pc = "done" /\ mk[p].ret # Undefined) => mk[p].age <= 45000

\* no call is awaiting the durable store or the upstream
Quiet == \A p \in Procs : mk[p].pc \in {"idle", "done", "failed"}

\* C39 as stated: once the calls for a symbol have completed, the in-process
\* entry and the durable row of its key hold the same snapshot while both
\* are unexpired.
TiersAgree ==
    \A k \in MarketKeys :
        (/\ Quiet
         /\ k \in DOMAIN cache /\ ~Expired(cache[k], now)
         /\ k \in DOMAIN db /\ RowValid(db[k], now)) =>
            cache[k].value = db[k].payload

(***************************************************************************)
(* Provider setting.                                                       *)
(***************************************************************************)
\* the setting a request of origin o has to read
OwnForce(o) ==
    IF o = HttpOrigin THEN ForceOf(pv.default) ELSE ForceOf(EnvOfPref(pv.req[o].pref))

\* C40 as stated: every request has read the setting of its own origin (the
\* preference of its chat, the process default for the HTTP route), and
\* while no analysis is in flight the process-wide setting is the one the
\* process was started with.
ProviderPerRequest ==
    /\ \A o \in Origins : pv.req[o].pc # "idle" => pv.req[o].force = OwnForce(o)
    /\ (\A c \in ProviderChats : pv.req[c].pc # "ai") => pv.env = pv.default

(***************************************************************************)
(* Callback store: garbage collection and identifiers.                     *)
(***************************************************************************)
\* C36: right after every put and every take the store holds no entry whose
\* expiry is earlier than the time of the call, and a take(id) that finds
\* under id a payload never asked for whose expiry has passed returns null.
GcOnEveryCall ==
    /\ \A n \in 1..nput : pend[n].clean
    /\ lastTake.clean
    /\ lastTake.lapsed => lastTake.ret = Null

\* a take that found its payload expired and still stored, beside it none
GcOnEveryCallWitness ==
    /\ lastTake.lapsed /\ lastTake.ret = Null
    /\ lastTake.id \notin DOMAIN store

\* C37 as stated: the identifier a put returns is the identifier of no entry
\* held in the store.
PutIdUnused ==
    \A n \in 1..nput : pend[n].fresh

\* C37: a put stores its payload under the identifier it drew and leaves
\* every unexpired entry held under another identifier as it was.
PutKeepsOtherIds ==
    \A n \in 1..nput : pend[n].replaced /\ pend[n].others

\* a put that drew the identifier of a held entry while another entry was
\* held beside it
PutKeepsOtherIdsWitness ==
    \E n \in 1..nput : ~pend[n].fresh /\ pend[n].beside /\ pend[n].others

(***************************************************************************)
(* Rate limiter: refill, retry estimate, denied requests.                  *)
(***************************************************************************)
\* C28 as stated: for a bucket no refill has filled up, the tokens refills
\* have added since the bucket was created at t0 number
\* floor((now - t0) / 6000), now being the time of its latest request.
RefillKeepsTime ==
    (audit.t0 > 0 /\ ~audit.full) => audit.added = (audit.at - audit.t0) \div 6000

\* C29: the retry estimate of a request denied as exhausted is the time from
\* the request to refill timestamp + 6000 ms, rounded up to whole seconds,
\* and lies between 1 and 6.
ExhaustedEstimate ==
    \A c \in Chats :
        (rl.chat = c /\ rl.res = "exhausted") =>
            LET wait == buckets[c].last + 6000 - rl.at
            IN  /\ 1000 * (rl.secs - 1) < wait /\ wait <= 1000 * rl.secs
                /\ rl.secs \in 1..6

\* an exhausted request whose wait is no whole number of seconds
ExhaustedEstimateWitness ==
    /\ rl.chat \in Chats /\ rl.res = "exhausted"
    /\ (buckets[rl.chat].last + 6000 - rl.at) % 1000 # 0

\* C30: a denied request takes no token and leaves the last-admitted
\* timestamp as it was; it changes the bucket by the lazy refill alone.
DeniedKeepsBucket ==
    \A c \in Chats :
        (rl.chat = c /\ rl.res \in {"slow", "exhausted"}) =>
            LET b == buckets[c]
                add == IF rl.at > rl.pre.last THEN (rl.at - rl.pre.last) \div 6000 ELSE 0
            IN  /\ b.lastHit = rl.pre.lastHit
                /\ b.tokens = Min(5, rl.pre.tokens + add)
                /\ b.last = IF add > 0 THEN rl.at ELSE rl.pre.last

\* a request denied by the gap rule 450 ms after the last admitted one, by a
\* bucket that is not new
DeniedKeepsBucketWitness ==
    /\ rl.chat \in Chats /\ rl.res = "slow" /\ ~rl.fresh
    /\ rl.at - rl.pre.lastHit = 450 /\ buckets[rl.chat].lastHit = rl.pre.lastHit

\* C31: a bucket's refill timestamp never decreases; a request for which
\* floor(elapsed / 6000) is 0, or whose clock reading is not later than the
\* refill timestamp, adds no token and leaves the refill timestamp as it was.
RefillNotRetroactive ==
    \A c \in Chats :
        rl.chat = c =>
            LET b == buckets[c]
                elapsed == rl.at - rl.pre.last
                taken == IF rl.res = "next" THEN 1 ELSE 0
            IN  /\ b.last >= rl.pre.last
                /\ (elapsed \div 6000 = 0 \/ elapsed <= 0) =>
                        /\ b.tokens = rl.pre.tokens - taken
                        /\ b.last = rl.pre.last

\* a request of a bucket that is not new, read on the clock at the very
\* instant of the refill timestamp
RefillNotRetroactiveWitness ==
    /\ rl.chat \in Chats /\ ~rl.fresh
    /\ rl.at = rl.pre.last /\ rl.pre.tokens < CAPACITY
    /\ buckets[rl.chat].last = rl.pre.last

\* C32: when the request before the latest one was denied as exhausted with
\* estimate s and the latest one came s seconds or more after it, the latest
\* one was admitted.
RetryAdmitted ==
    (audit.prev.res = "exhausted" /\ rl.at >= audit.prev.at + 1000 * audit.prev.secs) =>
        rl.res = "next"

\* a request admitted exactly s seconds or later, and less than a refill
\* interval, after an exhausted denial
RetryAdmittedWitness ==
    /\ audit.prev.res = "exhausted" /\ rl.res = "next"
    /\ rl.at >= audit.prev.at + 1000 * audit.prev.secs
    /\ rl.at < audit.prev.at + 6000

\* C33: the requests admitted since the bucket was created at t0 number at
\* most 5 + floor((t - t0) / 6000) at every time t.
AdmittedBound ==
    audit.t0 > 0 => audit.admitted <= 5 + ((now - audit.t0) \div 6000)

\* the bound is met: more than 5 requests admitted, as many as allowed
AdmittedBoundWitness ==
    /\ audit.t0 > 0 /\ audit.admitted > 5
    /\ audit.admitted = 5 + ((now - audit.t0) \div 6000)

(***************************************************************************)
(* DEX data client properties.                                             *)
(***************************************************************************)
Count(seq, x) == Cardinality({i \in DOMAIN seq : seq[i] = x})
Usd(v) == IF v = -1 THEN 0 ELSE v
Ahead(a, b) ==
    \/ Usd(a.liq) > Usd(b.liq)
    \/ Usd(a.liq) = Usd(b.liq) /\ Usd(a.vol) > Usd(b.vol)
\* ret is the first `limit` elements of raw put in descending order
FirstOf(ret, raw, limit, Before(_, _)) ==
    /\ Len(ret) = Min(limit, Len(raw))
    /\ \A i \in DOMAIN ret : Count(ret, ret[i]) <= Count(raw, ret[i])
    /\ \A i, j \in DOMAIN ret : i < j => ~Before(ret[j], ret[i])
    /\ \A k \in DOMAIN raw :
         Count(ret, raw[k]) < Count(raw, raw[k]) => \A i \in DOMAIN ret : ~Before(raw[k], ret[i])

\* C22: searchDexPairs(query, limit) returns at most limit pairs, the first
\* limit pairs of the upstream answer ordered by liquidity descending and then
\* by 24h volume descending, a missing value counting as 0; what it returns
\* from the cache was stored by a call with the same limit.
SearchPairsResult ==
    (dx.pc = "done" /\ dx.op = "search") =>
        /\ Len(dx.ret) <= dx.limit
        /\ dx.key \in DOMAIN dx.src
        /\ dx.src[dx.key].limit = dx.limit
        /\ FirstOf(dx.ret, dx.src[dx.key].raw, dx.limit, Ahead)

\* the second call asks for one pair of a query whose two-pair result is in the
\* cache: it fetches, and of two pairs of equal liquidity returns the one with
\* the larger volume
SearchPairsResultWitness ==
    /\ dx.pc = "done" /\ dx.op = "search" /\ dx.n = 2 /\ dx.limit = 1 /\ ~dx.hit
    /\ \E k \in DOMAIN cache :
         /\ k # dx.key /\ k[1] = "dex:search" /\ k[2] = dx.key[2]
         /\ ~Expired(cache[k], now) /\ Len(cache[k].value) = 2
    /\ dx.raw = <<PairB, PairS>> /\ dx.ret = <<PairS>>

\* C23: getDexByContract never returns an empty sequence: when the upstream
\* answers with zero pairs the call fails with the no-pairs error, which no
\* upstream or network failure produces; any other answer is returned whole,
\* ordered by liquidity descending.
MoreLiquid(a, b) == Usd(a.liq) > Usd(b.liq)
ContractResult ==
    dx.op = "contract" =>
        /\ dx.pc = "done" =>
             /\ dx.ret # << >>
             /\ dx.key \in DOMAIN dx.src
             /\ FirstOf(dx.ret, dx.src[dx.key].raw, Len(dx.src[dx.key].raw), MoreLiquid)
        /\ (dx.answered /\ dx.raw = << >>) => dx.pc = "failed"
        /\ dx.pc = "failed" =>
             /\ dx.err = NoPairsFound <=> (dx.answered /\ dx.raw = << >>)
             /\ ~dx.answered => dx.err[1] \in {"http", "network"}

\* the upstream answered with no pair and the call failed with the no-pairs error
ContractResultWitness ==
    /\ dx.op = "contract" /\ dx.pc = "failed" /\ dx.answered /\ dx.raw = << >>
    /\ dx.err = NoPairsFound

\* C35: when the producer of a with() call fails, the caller gets the
\* failure, no result, and the store is exactly as the producer found it;
\* the call that follows a failed call with the same key misses the cache
\* and issues its request.
FailureNotCached ==
    /\ dx.pc = "failed" =>
            /\ dx.err # NoError /\ dx.ret = << >> /\ ~dx.hit
            /\ cache = dx.held
    /\ (dx.after # << >> /\ dx.after = dx.key) => (~dx.hit /\ dx.nReq = 1)

\* getDexByContract fails with "no pairs found" a second time running: the
\* first failure was not remembered
FailureNotCachedWitness ==
    /\ dx.pc = "failed" /\ dx.op = "contract" /\ dx.err = NoPairsFound
    /\ dx.after = dx.key /\ dx.nReq = 1
    /\ dx.key \notin DOMAIN cache

\* C24 as stated: an operation whose request failed with a rate-limit or
\* server-error status has issued a second request.
DexRetriesOnce ==
    (dx.pc \in {"done", "failed"} /\ dx.nReq > 0 /\ dx.status # 0 /\
     (dx.status = 429 \/ dx.status >= 500)) => dx.nReq = 2


(***************************************************************************)
(* Inbound user actions.                                                   *)
(***************************************************************************)
\* the action in hand has an upstream request of a client in flight
Requested(a) ==
    \/ a.client = "dex" /\ dx.pc = "wait" /\ dx.nReq = 1 /\ dx.key = ContractKey(a.input)
    \/ a.client = "market" /\ mk[a.p].pc = "fetch" /\ mk[a.p].key = SymbolKey(a.input)

\* C25 as stated: a client is called for an inbound user action only if the
\* rate limiter was consulted once for that action and admitted it.
GovernedCalls == sv.client # "none" => (sv.consulted = 1 /\ sv.admitted)

\* C27 as stated: for a malformed contract address or symbol no upstream
\* request is issued, on the token and price routes and the two commands.
Letters == {UpperCase[i] : i \in DOMAIN UpperCase} \cup {LowerCase[i] : i \in DOMAIN LowerCase}
WellFormedSymbol(t) == Len(t) \in 2..15 /\ \A i \in DOMAIN t : t[i] \in Letters \cup Digits
Malformed(a) ==
    \/ a.entry \in {"analyze", "token"} /\ ~ExactAddress(a.input)
    \/ a.entry = "price" /\ ~WellFormedSymbol(Trim(a.input))
MalformedRejected == (sv.kind # "none" /\ Malformed(sv)) => ~Requested(sv)


(***************************************************************************)
(* Safety insight properties.                                              *)
(***************************************************************************)
Forced(a) == a.force \in {OpenAiName, GeminiName}
ForcedName(a) == IF a.force = OpenAiName THEN "openai" ELSE "gemini"

\* C26: aiSafetyInsight never rejects; a call in which every provider it
\* tried failed or had no key returns the heuristic score with the provider
\* tag mock; with a forced provider only that provider is tried; in auto mode
\* the first provider is tried first and the second only after it failed.
InsightNeverFails ==
    /\ ai.pc # "failed"
    /\ ai.pc = "done" =>
         /\ ai.result.provider \in {"openai", "gemini", "mock"}
         /\ ai.result.score \in 0..100
         /\ ai.failed = ai.tried =>
              ai.result = [score |-> HeuristicScore(ai.metrics), provider |-> "mock"]
         /\ ai.failed # ai.tried => ai.result.provider = ai.tried[Len(ai.tried)]
    /\ ai.pc # "idle" =>
         /\ Forced(ai) => ai.tried = <<ForcedName(ai)>>
         /\ ~Forced(ai) =>
              /\ ai.tried \in {<<"openai">>, <<"openai", "gemini">>}
              /\ Len(ai.tried) = 2 => (ai.failed # << >> /\ ai.failed[1] = "openai")

\* auto mode, both providers have a key and both chains rejected: the
\* heuristic score of a thinly traded token comes back tagged mock
InsightNeverFailsWitness ==
    /\ ai.pc = "done" /\ ~Forced(ai) /\ ai.openai /\ ai.gemini
    /\ ai.failed = <<"openai", "gemini">>
    /\ ai.result = [score |-> 20, provider |-> "mock"]

====
